---- MODULE Spec2Model ----
(***************************************************************************)
(* Model of the bird CLI gateway (scripts/social/bird-utils.js) and of the *)
(* competitive-intelligence aggregator                                     *)
(* (scripts/social/bird-competitive-intel.js).                             *)
(*                                                                         *)
(* A JavaScript string is a sequence of one-character strings, so that     *)
(* includes(), toLowerCase() and concatenation are computed, not assumed.  *)
(* An optional JavaScript value (possibly undefined) is a sequence of      *)
(* length 0 (undefined) or 1.  The file system is taken to be reliable:    *)
(* mkdirSync and writeFileSync succeed.                                    *)
(***************************************************************************)
EXTENDS Integers, Sequences, FiniteSets, TLC

VARIABLES
    entry,   \* which exported entry point this behaviour exercises
    ex,      \* the activation of BirdUtils.executeCommand
    w,       \* the activation of a fetch wrapper (search, readTweet, ...)
    intel,   \* the CompetitiveIntelligence instance and its run() activation
    disk,    \* the report file of the brand for the current date
    call     \* the activation of a method of the instance called on its own

vars == <<entry, ex, w, intel, disk, call>>

(***************************************************************************)
(* Bounds of the model                                                     *)
(***************************************************************************)
MaxRetries == 3      \* largest retry count passed to executeCommand directly
MaxRuns == 2         \* run() calls on one CompetitiveIntelligence instance
MaxFetches == 4      \* searches issued by one instance over all its runs

(***************************************************************************)
(* Strings                                                                 *)
(***************************************************************************)
\* The letters of the Basic Latin and Latin-1 Supplement blocks that
\* String.prototype.toLowerCase changes, and what it makes of them; the text
\* of the model is written in these two blocks, where every letter has a
\* lower case of one character
UpperCase ==
    <<"A", "B", "C", "D", "E", "F", "G", "H", "I", "J", "K", "L", "M",
      "N", "O", "P", "Q", "R", "S", "T", "U", "V", "W", "X", "Y", "Z",
      "À", "Á", "Â", "Ã", "Ä", "Å", "Æ", "Ç", "È", "É", "Ê", "Ë", "Ì",
      "Í", "Î", "Ï", "Ð", "Ñ", "Ò", "Ó", "Ô", "Õ", "Ö", "Ø", "Ù", "Ú",
      "Û", "Ü", "Ý", "Þ">>
LowerCase ==
    <<"a", "b", "c", "d", "e", "f", "g", "h", "i", "j", "k", "l", "m",
      "n", "o", "p", "q", "r", "s", "t", "u", "v", "w", "x", "y", "z",
      "à", "á", "â", "ã", "ä", "å", "æ", "ç", "è", "é", "ê", "ë", "ì",
      "í", "î", "ï", "ð", "ñ", "ò", "ó", "ô", "õ", "ö", "ø", "ù", "ú",
      "û", "ü", "ý", "þ">>

LowerOf(c) ==
    LET hit == {i \in 1..Len(UpperCase) : UpperCase[i] = c}
    IN IF hit = {} THEN c ELSE LowerCase[CHOOSE i \in hit : TRUE]

\* String.prototype.toLowerCase
ToLowerCase(s) == [i \in 1..Len(s) |-> LowerOf(s[i])]

\* String.prototype.includes
Includes(s, sub) ==
    \E i \in 0..(Len(s) - Len(sub)) : SubSeq(s, i + 1, i + Len(sub)) = sub

\* Array.prototype.includes on an array of strings
ArrayIncludes(arr, x) == \E i \in 1..Len(arr) : arr[i] = x

DigitChars == <<"0", "1", "2", "3", "4", "5", "6", "7", "8", "9">>

\* String(n) for a non-negative integer
RECURSIVE NumberToString(_)
NumberToString(n) ==
    IF n < 10 THEN <<DigitChars[n + 1]>>
    ELSE NumberToString(n \div 10) \o <<DigitChars[(n % 10) + 1]>>

\* Array.prototype.join(sep) on an array of strings
RECURSIVE Join(_, _)
Join(arr, sep) ==
    IF arr = <<>> THEN <<>>
    ELSE IF Len(arr) = 1 THEN arr[1]
    ELSE arr[1] \o sep \o Join(Tail(arr), sep)

\* x || d for an optional value x whose falsy values are undefined and empty
Truthy(opt) == opt # <<>> /\ opt[1] # <<>>
Get(rec, f) == IF f \in DOMAIN rec THEN <<rec[f]>> ELSE <<>>
OrElse(rec, f, d) == IF f \in DOMAIN rec THEN rec[f] ELSE d

S_auth == <<"a", "u", "t", "h">>
S_cookie == <<"c", "o", "o", "k", "i", "e">>
S_AuthenticationError ==
    <<"A", "u", "t", "h", "e", "n", "t", "i", "c", "a", "t", "i", "o", "n", " ",
      "e", "r", "r", "o", "r", ":", " ">>
S_json == <<"j", "s", "o", "n">>
S_dashJson == <<"-", "-", "j", "s", "o", "n">>
S_dashN == <<"-", "n">>
S_from == <<"f", "r", "o", "m", ":">>
S_search == <<"s", "e", "a", "r", "c", "h">>

(***************************************************************************)
(* The external tool: what one invocation can do.  It either prints a      *)
(* text on standard output or fails with a message.                        *)
(***************************************************************************)
MsgTimeout == <<"t", "i", "m", "e", "o", "u", "t">>
MsgRate == <<"4", "2", "9">>
MsgAuth == <<"u", "n", "a", "u", "t", "h", "o", "r", "i", "z", "e", "d">>
MsgCookie == <<"n", "o", " ", "c", "o", "o", "k", "i", "e", "s">>

\* The objects the tool can print, by the token that stands for their JSON text
Objects ==
    [p1 |-> [text |-> <<"h", "o", "w", " ", "t", "o", " ", "x">>,
             author_handle |-> <<"a">>,
             created_at |-> <<"d", "1">>,
             public_metrics |->
                 [like_count |-> 100, retweet_count |-> 50, reply_count |-> 10]],
     p2 |-> [full_text |-> <<"W", "h", "y", " ", "X", " ", "y">>,
             user |-> [screen_name |-> <<"b">>],
             public_metrics |->
                 [like_count |-> 900, retweet_count |-> 950, reply_count |-> 1000]],
     p3 |-> [id |-> <<"3">>,
             created_at |-> <<"d", "3">>,
             public_metrics |-> [like_count |-> 7]]]

\* Standard outputs, as token sequences: "[", "]", "," and object tokens
OutObject == <<"p1">>
OutTruncated == <<"[", "p1", ",">>

ToolOutcomes ==
    [ok : {TRUE},
     text : {OutObject, <<"[", "p1", ",", "p2", "]">>, <<"[", "]">>, OutTruncated,
             <<"[", "p3", "]">>}]
        \cup [ok : {FALSE}, text : {MsgTimeout, MsgRate, MsgAuth, MsgCookie}]

(***************************************************************************)
(* Results of calls: a returned value or a thrown error (its message)      *)
(***************************************************************************)
Return(v) == [thrown |-> FALSE, value |-> v]
Throw(msg) == [thrown |-> TRUE, value |-> msg]


(***************************************************************************)
(* BirdUtils.executeCommand                                                *)
(***************************************************************************)
DefaultRetries == 3
DefaultDelay == 1000

ExIdle ==
    [pc |-> "idle", retries |-> 0, delay |-> 0, command |-> <<>>, argv |-> <<>>,
     attempt |-> 0, lastError |-> <<>>, trace |-> <<>>, result |-> <<>>]

PauseEvent(ms) == [ev |-> "pause", ok |-> FALSE, text |-> <<>>, ms |-> ms]

\* const jsonArgs = ...; const finalArgs = [command, ...args, ...jsonArgs]
FinalArgs(command, args, options) ==
    LET format == OrElse(options, "format", S_json)
        jsonArgs == IF format = S_json /\ ~ArrayIncludes(args, S_dashJson)
                    THEN <<S_dashJson>> ELSE <<>>
    IN <<command>> \o args \o jsonArgs

\* new Error(`Command failed after ${retries} retries: ${command} ${finalArgs.join(' ')}`)
CommandFailedMessage(f) ==
    <<"C", "o", "m", "m", "a", "n", "d", " ", "f", "a", "i", "l", "e", "d", " ", "a", "f", "t", "e", "r", " ">>
        \o NumberToString(f.retries) \o <<" ", "r", "e", "t", "r", "i", "e", "s", ":", " ">>
        \o f.command \o <<" ">> \o Join(f.argv, <<" ">>)

\* Variant: the check for 'cookie' is missing
IsAuthError_AuthOnly(message) == Includes(message, S_auth)

\* error.message.includes('auth') || error.message.includes('cookie')
IsAuthError(message) == Includes(message, S_auth) \/ Includes(message, S_cookie)

\* Variant: the delay is waited after every failed attempt, the last included
WillRetry_Always(f) == f.attempt < f.retries

\* attempt < retries - 1: wait before retrying
WillRetry(f) == f.attempt < f.retries - 1

\* Variant: the guard is attempt <= retries
LoopGuard_Inclusive(f) == f.attempt <= f.retries

\* The guard of the for loop: attempt < retries
LoopGuard(f) == f.attempt < f.retries

\* The statement after the loop: throw lastError || new Error(...)
LoopExit(f) ==
    [f EXCEPT !.pc = "thrown",
              !.result = <<Throw(IF f.lastError # <<>> THEN f.lastError[1]
                                 ELSE CommandFailedMessage(f))>>]

\* The call up to its first await: destructure the options, build finalArgs,
\* enter the loop; a loop whose guard fails at once falls through to the throw
ExecuteCommand(command, args, options) ==
    LET f == [ExIdle EXCEPT !.pc = "loop",
                            !.retries = OrElse(options, "retries", DefaultRetries),
                            !.delay = OrElse(options, "delay", DefaultDelay),
                            !.command = command,
                            !.argv = FinalArgs(command, args, options)]
    IN IF LoopGuard(f) THEN f ELSE LoopExit(f)

\* attempt++ has been done: the next iteration, or the statement after the loop
Continue(f) == IF LoopGuard(f) THEN [f EXCEPT !.pc = "loop"] ELSE LoopExit(f)

\* One iteration of the loop body, from the invocation of the tool to the next
\* await (the delay) or to the end of the call
AfterAttempt(f, outcome) ==
    LET t == Append(f.trace, [ev |-> "attempt", ok |-> outcome.ok,
                              text |-> outcome.text, ms |-> 0]) IN
    IF outcome.ok
    THEN [f EXCEPT !.pc = "returned", !.trace = t, !.result = <<Return(outcome.text)>>]
    ELSE IF IsAuthError(outcome.text)
    THEN [f EXCEPT !.pc = "thrown", !.trace = t, !.lastError = <<outcome.text>>,
                   !.result = <<Throw(S_AuthenticationError \o outcome.text)>>]
    ELSE IF WillRetry(f)
    THEN [f EXCEPT !.pc = "delay", !.trace = t, !.lastError = <<outcome.text>>]
    ELSE Continue([f EXCEPT !.attempt = @ + 1, !.trace = t,
                            !.lastError = <<outcome.text>>])

\* The delay has elapsed: attempt++ and back to the loop guard
AfterDelay(f) ==
    Continue([f EXCEPT !.attempt = @ + 1, !.trace = Append(@, PauseEvent(f.delay))])

(***************************************************************************)
(* BirdUtils.parseJSON and the fetch wrappers                              *)
(***************************************************************************)
Arr(items) == [kind |-> "array", val |-> items]
Obj(o) == [kind |-> "object", val |-> o]
JsNull == [kind |-> "null", val |-> <<>>]
\* What a call of a function without return statement gives
JsUndefined == [kind |-> "undefined", val |-> <<>>]

\* The JSON text each object token stands for, as the tool prints it
ObjectTexts ==
    [p1 |->
       <<"{", "\"", "t", "e", "x", "t", "\"", ":", "\"", "h", "o", "w", " ",
        "t", "o", " ", "x", "\"", ",", "\"", "a", "u", "t", "h", "o", "r",
        "_", "h", "a", "n", "d", "l", "e", "\"", ":", "\"", "a", "\"", ",",
        "\"", "c", "r", "e", "a", "t", "e", "d", "_", "a", "t", "\"", ":",
        "\"", "d", "1", "\"", ",", "\"", "p", "u", "b", "l", "i", "c", "_",
        "m", "e", "t", "r", "i", "c", "s", "\"", ":", "{", "\"", "l", "i",
        "k", "e", "_", "c", "o", "u", "n", "t", "\"", ":", "1", "0", "0",
        ",", "\"", "r", "e", "t", "w", "e", "e", "t", "_", "c", "o", "u",
        "n", "t", "\"", ":", "5", "0", ",", "\"", "r", "e", "p", "l", "y",
        "_", "c", "o", "u", "n", "t", "\"", ":", "1", "0", "}", "}">>,
     p2 |->
       <<"{", "\"", "f", "u", "l", "l", "_", "t", "e", "x", "t", "\"", ":",
        "\"", "W", "h", "y", " ", "X", " ", "y", "\"", ",", "\"", "u", "s",
        "e", "r", "\"", ":", "{", "\"", "s", "c", "r", "e", "e", "n", "_",
        "n", "a", "m", "e", "\"", ":", "\"", "b", "\"", "}", ",", "\"", "p",
        "u", "b", "l", "i", "c", "_", "m", "e", "t", "r", "i", "c", "s",
        "\"", ":", "{", "\"", "l", "i", "k", "e", "_", "c", "o", "u", "n",
        "t", "\"", ":", "9", "0", "0", ",", "\"", "r", "e", "t", "w", "e",
        "e", "t", "_", "c", "o", "u", "n", "t", "\"", ":", "9", "5", "0",
        ",", "\"", "r", "e", "p", "l", "y", "_", "c", "o", "u", "n", "t",
        "\"", ":", "1", "0", "0", "0", "}", "}">>,
     p3 |->
       <<"{", "\"", "i", "d", "\"", ":", "\"", "3", "\"", ",", "\"", "c", "r",
        "e", "a", "t", "e", "d", "_", "a", "t", "\"", ":", "\"", "d", "3",
        "\"", ",", "\"", "p", "u", "b", "l", "i", "c", "_", "m", "e", "t",
        "r", "i", "c", "s", "\"", ":", "{", "\"", "l", "i", "k", "e", "_",
        "c", "o", "u", "n", "t", "\"", ":", "7", "}", "}">>]

IsObjectToken(t) == t \in DOMAIN Objects

\* The text of a token sequence, and the offset at which its i-th token starts
JsonSource(tokens) ==
    LET txt[i \in 0..Len(tokens)] ==
            IF i = 0 THEN <<>>
            ELSE txt[i - 1] \o (IF IsObjectToken(tokens[i]) THEN ObjectTexts[tokens[i]]
                                ELSE <<tokens[i]>>)
    IN txt[Len(tokens)]
JsonPosition(tokens, i) == Len(JsonSource(SubSeq(tokens, 1, i - 1)))

\* The messages of the SyntaxError that JSON.parse throws
S_UnexpectedEnd ==
    <<"U", "n", "e", "x", "p", "e", "c", "t", "e", "d", " ", "e", "n",
      "d", " ", "o", "f", " ", "J", "S", "O", "N", " ", "i", "n", "p",
      "u", "t">>
ExpectedCommaOrBracket(pos) ==
    <<"E", "x", "p", "e", "c", "t", "e", "d", " ", "'", ",", "'", " ",
      "o", "r", " ", "'", "]", "'", " ", "a", "f", "t", "e", "r", " ",
      "a", "r", "r", "a", "y", " ", "e", "l", "e", "m", "e", "n", "t",
      " ", "i", "n", " ", "J", "S", "O", "N", " ", "a", "t", " ", "p",
      "o", "s", "i", "t", "i", "o", "n", " ">>
        \o NumberToString(pos)
UnexpectedNonWhitespace(pos) ==
    <<"U", "n", "e", "x", "p", "e", "c", "t", "e", "d", " ", "n", "o",
      "n", "-", "w", "h", "i", "t", "e", "s", "p", "a", "c", "e", " ",
      "c", "h", "a", "r", "a", "c", "t", "e", "r", " ", "a", "f", "t",
      "e", "r", " ", "J", "S", "O", "N", " ", "a", "t", " ", "p", "o",
      "s", "i", "t", "i", "o", "n", " ">>
        \o NumberToString(pos)
\* The character at offset pos is shown with the source, or with the ten
\* characters on each side of it when the source has more than twenty
UnexpectedToken(source, pos) ==
    LET n == Len(source)
        short == n < 21
        first == IF short \/ pos < 10 THEN 0 ELSE pos - 10
        last == IF short THEN n ELSE IF pos < n - 10 THEN pos + 10 ELSE n
    IN <<"U", "n", "e", "x", "p", "e", "c", "t", "e", "d", " ", "t", "o",
           "k", "e", "n", " ", "'">>
           \o <<source[pos + 1], "'", ",", " ">>
           \o (IF first > 0 THEN <<".", ".", ".">> ELSE <<>>)
           \o <<"\"">> \o SubSeq(source, first + 1, last) \o <<"\"">>
           \o (IF last < n THEN <<".", ".", ".">> ELSE <<>>)
           \o <<" ", "i", "s", " ", "n", "o", "t", " ", "v", "a", "l", "i", "d",
              " ", "J", "S", "O", "N">>

JsonFail(message) == [ok |-> FALSE, value |-> message, next |-> 0]

\* One JSON value read from the i-th token on: an object, or an array of values
RECURSIVE JsonValue(_, _), JsonElements(_, _, _)
JsonValue(tokens, i) ==
    IF i > Len(tokens) THEN JsonFail(S_UnexpectedEnd)
    ELSE IF IsObjectToken(tokens[i])
    THEN [ok |-> TRUE, value |-> Objects[tokens[i]], next |-> i + 1]
    ELSE IF tokens[i] = "["
    THEN IF i < Len(tokens) /\ tokens[i + 1] = "]"
         THEN [ok |-> TRUE, value |-> Arr(<<>>), next |-> i + 2]
         ELSE JsonElements(tokens, i + 1, <<>>)
    ELSE JsonFail(UnexpectedToken(JsonSource(tokens), JsonPosition(tokens, i)))

\* The elements of an array after its "[" or a ",", up to its "]"
JsonElements(tokens, i, items) ==
    LET v == JsonValue(tokens, i) IN
    IF ~v.ok THEN v
    ELSE IF v.next <= Len(tokens) /\ tokens[v.next] = ","
    THEN JsonElements(tokens, v.next + 1, Append(items, v.value))
    ELSE IF v.next <= Len(tokens) /\ tokens[v.next] = "]"
    THEN [ok |-> TRUE, value |-> Arr(Append(items, v.value)), next |-> v.next + 1]
    ELSE JsonFail(ExpectedCommaOrBracket(JsonPosition(tokens, v.next)))

\* JSON.parse on the token sequence
JSONParse(text) ==
    LET v == JsonValue(text, 1) IN
    IF ~v.ok THEN Throw(v.value)
    ELSE IF v.next <= Len(text)
    THEN Throw(UnexpectedNonWhitespace(JsonPosition(text, v.next)))
    ELSE IF IsObjectToken(text[1]) THEN Return(Obj(v.value))
    ELSE Return(v.value)

ParseJSON(jsonString) ==
    LET r == JSONParse(jsonString)
    IN IF r.thrown
       THEN Throw(<<"F", "a", "i", "l", "e", "d", " ", "t", "o", " ", "p", "a", "r",
                    "s", "e", " ", "b", "i", "r", "d", " ", "J", "S", "O", "N", " ",
                    "o", "u", "t", "p", "u", "t", ":", " ">> \o r.value)
       ELSE r

\* Variant: the catch block rethrows what executeCommand threw
ListOrEmpty_Rethrow(r) ==
    IF r.thrown THEN r
    ELSE LET parsed == ParseJSON(r.value)
         IN IF parsed.thrown THEN Return(Arr(<<>>))
            ELSE IF parsed.value.kind = "array" THEN Return(parsed.value)
            ELSE Return(Arr(<<parsed.value.val>>))

\* Variant: the parsed value is returned as it is
ListOrEmpty_NoWrap(r) ==
    IF r.thrown THEN Return(Arr(<<>>))
    ELSE LET parsed == ParseJSON(r.value)
         IN IF parsed.thrown THEN Return(Arr(<<>>)) ELSE Return(parsed.value)

\* try { parsed = parseJSON(await executeCommand(..)); return Array.isArray(parsed)
\* ? parsed : [parsed] } catch (error) { console.error(..); return [] }
\* r is what the awaited executeCommand settled with
ListOrEmpty(r) ==
    IF r.thrown THEN Return(Arr(<<>>))
    ELSE LET parsed == ParseJSON(r.value)
         IN IF parsed.thrown THEN Return(Arr(<<>>))
            ELSE IF parsed.value.kind = "array" THEN Return(parsed.value)
            ELSE Return(Arr(<<parsed.value.val>>))

Search(r) == ListOrEmpty(r)
GetMentions(r) == ListOrEmpty(r)
GetBookmarks(r) == ListOrEmpty(r)
GetReplies(r) == ListOrEmpty(r)
GetThread(r) == ListOrEmpty(r)

\* try { return parseJSON(await executeCommand('read', ..)) } catch { return null }
ReadTweet(r) ==
    IF r.thrown THEN Return(JsNull)
    ELSE LET parsed == ParseJSON(r.value)
         IN IF parsed.thrown THEN Return(JsNull) ELSE Return(parsed.value)

FetchOps == {"search", "getMentions", "getBookmarks", "getReplies", "getThread", "readTweet"}

DefaultLimit == 10

\* The subcommand and the arguments each wrapper passes to executeCommand
WrapperCommand(op) ==
    CASE op = "search" -> S_search
      [] op = "getMentions" -> <<"m", "e", "n", "t", "i", "o", "n", "s">>
      [] op = "getBookmarks" -> <<"b", "o", "o", "k", "m", "a", "r", "k", "s">>
      [] op = "readTweet" -> <<"r", "e", "a", "d">>
      [] op = "getReplies" -> <<"r", "e", "p", "l", "i", "e", "s">>
      [] op = "getThread" -> <<"t", "h", "r", "e", "a", "d">>

WrapperArgs(op, target, limit) ==
    CASE op = "search" -> <<S_dashN, NumberToString(limit), target>>
      [] op = "getMentions" -> <<S_dashN, NumberToString(limit)>>
      [] op = "getBookmarks" -> <<S_dashN, NumberToString(limit)>>
      [] op = "readTweet" -> <<target>>
      [] op = "getReplies" -> <<S_dashN, NumberToString(limit), target>>
      [] op = "getThread" -> <<target>>

WrapperResult(op, r) ==
    CASE op = "search" -> Search(r)
      [] op = "getMentions" -> GetMentions(r)
      [] op = "getBookmarks" -> GetBookmarks(r)
      [] op = "readTweet" -> ReadTweet(r)
      [] op = "getReplies" -> GetReplies(r)
      [] op = "getThread" -> GetThread(r)

WIdle == [pc |-> "idle", op |-> "", target |-> <<>>, awaited |-> <<>>, result |-> <<>>]

\* The wrapper up to its await of executeCommand
Awaiting(op, target) ==
    [pc |-> "awaiting", op |-> op, target |-> target, awaited |-> <<>>, result |-> <<>>]

\* The wrapper after executeCommand has settled with r
Settled(f, r) ==
    [f EXCEPT !.pc = "done", !.awaited = <<r>>, !.result = <<WrapperResult(f.op, r)>>]

(***************************************************************************)
(* CompetitiveIntelligence: the scoring functions                          *)
(***************************************************************************)
TrendKeywordCap == 3
FetchLimit == 5
CollaborationCap == 100
HighCollaboration == 70
MediumCollaboration == 40
StrongTrend == 100
ModerateTrend == 50

\* Variant: Math.floor in place of Math.round
RoundDiv_Floor(num, den) == num \div den

\* Math.round(num / den) for num >= 0, den > 0
RoundDiv(num, den) == (2 * num + den) \div (2 * den)

\* Variant: the counts are read from the post itself, where they are not
Metric_TopLevel(t, f) == IF f \in DOMAIN t THEN t[f] ELSE 0

\* t.public_metrics?.<f> || 0
Metric(t, f) ==
    IF "public_metrics" \in DOMAIN t /\ f \in DOMAIN t.public_metrics
    THEN t.public_metrics[f] ELSE 0

\* t.text || t.full_text (undefined when the post has neither)
TextOf(t) == IF Truthy(Get(t, "text")) THEN Get(t, "text") ELSE Get(t, "full_text")

\* t.author_handle || t.user?.screen_name
AuthorOf(t) ==
    IF Truthy(Get(t, "author_handle")) THEN Get(t, "author_handle")
    ELSE IF "user" \in DOMAIN t THEN Get(t.user, "screen_name") ELSE <<>>

S_TypeError == <<"Cannot read properties of undefined (reading 'toLowerCase')">>

RECURSIVE SumMetric(_, _)
SumMetric(tweets, f) ==
    IF tweets = <<>> THEN 0 ELSE Metric(Head(tweets), f) + SumMetric(Tail(tweets), f)

CalculateAverageEngagement(tweets) ==
    IF Len(tweets) = 0 THEN [likes |-> 0, retweets |-> 0, replies |-> 0]
    ELSE [likes |-> RoundDiv(SumMetric(tweets, "like_count"), Len(tweets)),
          retweets |-> RoundDiv(SumMetric(tweets, "retweet_count"), Len(tweets)),
          replies |-> RoundDiv(SumMetric(tweets, "reply_count"), Len(tweets))]

\* A value that is a number or a string, as a property of a plain object holds
JsNumber(n) == [kind |-> "number", val |-> n]
JsString(s) == [kind |-> "string", val |-> s]

\* String(v)
ToStr(v) ==
    IF v.kind = "string" THEN v.val
    ELSE IF v.val < 0 THEN <<"-">> \o NumberToString(0 - v.val)
    ELSE NumberToString(v.val)

IsDigits(s) == \A i \in 1..Len(s) : ArrayIncludes(DigitChars, s[i])
DigitOf(c) == CHOOSE d \in 0..9 : DigitChars[d + 1] = c

\* Number(v), <<>> standing for NaN; the numeric strings of the model are the
\* empty string and the strings of one to nine decimal digits
ToNumber(v) ==
    IF v.kind = "number" THEN <<v.val>>
    ELSE IF IsDigits(v.val) /\ Len(v.val) <= 9
    THEN LET num[i \in 0..Len(v.val)] ==
                 IF i = 0 THEN 0 ELSE 10 * num[i - 1] + DigitOf(v.val[i])
         IN <<num[Len(v.val)]>>
    ELSE <<>>

\* a + b: a sum of numbers, otherwise the concatenation of the two strings
JsAdd(a, b) ==
    IF a.kind = "number" /\ b.kind = "number" THEN JsNumber(a.val + b.val)
    ELSE JsString(ToStr(a) \o ToStr(b))

\* v || 0 for a value that may be undefined (<<>>)
OrZero(opt) ==
    IF opt = <<>> THEN JsNumber(0)
    ELSE IF opt[1].kind = "number" /\ opt[1].val = 0 THEN JsNumber(0)
    ELSE IF opt[1].kind = "string" /\ opt[1].val = <<>> THEN JsNumber(0)
    ELSE opt[1]

\* v > n
Exceeds(v, n) == ToNumber(v) # <<>> /\ ToNumber(v)[1] > n

\* obj[key] for a key that is not an own property of the plain object obj, as
\* the operand of || and +: nothing (undefined), or the text that + makes of
\* the inherited function or of Object.prototype
Inherited(key) ==
    LET \* the methods that {} inherits from Object.prototype, by name
        PrototypeMethods ==
            {<<"c", "o", "n", "s", "t", "r", "u", "c", "t", "o", "r">>,
             <<"_", "_", "d", "e", "f", "i", "n", "e", "G", "e", "t", "t", "e",
              "r", "_", "_">>,
             <<"_", "_", "d", "e", "f", "i", "n", "e", "S", "e", "t", "t", "e",
              "r", "_", "_">>,
             <<"h", "a", "s", "O", "w", "n", "P", "r", "o", "p", "e", "r", "t",
              "y">>,
             <<"_", "_", "l", "o", "o", "k", "u", "p", "G", "e", "t", "t", "e",
              "r", "_", "_">>,
             <<"_", "_", "l", "o", "o", "k", "u", "p", "S", "e", "t", "t", "e",
              "r", "_", "_">>,
             <<"i", "s", "P", "r", "o", "t", "o", "t", "y", "p", "e", "O", "f">>,
             <<"p", "r", "o", "p", "e", "r", "t", "y", "I", "s", "E", "n", "u",
              "m", "e", "r", "a", "b", "l", "e">>,
             <<"t", "o", "S", "t", "r", "i", "n", "g">>,
             <<"v", "a", "l", "u", "e", "O", "f">>,
             <<"t", "o", "L", "o", "c", "a", "l", "e", "S", "t", "r", "i", "n",
              "g">>}
    IN
    IF key = <<"_", "_", "p", "r", "o", "t", "o", "_", "_">>
    THEN <<JsString(<<"[", "o", "b", "j", "e", "c", "t", " ", "O", "b", "j", "e", "c",
                      "t", "]">>)>>
    ELSE IF key \in PrototypeMethods
    THEN <<JsString(<<"f", "u", "n", "c", "t", "i", "o", "n", " ">>
                    \o (IF key = <<"c", "o", "n", "s", "t", "r", "u", "c", "t", "o", "r">>
                        THEN <<"O", "b", "j", "e", "c", "t">> ELSE key)
                    \o <<"(", ")", " ", "{", " ", "[", "n", "a", "t", "i", "v", "e", " ",
                       "c", "o", "d", "e", "]", " ", "}">>)>>
    ELSE <<>>

\* Object.keys of a plain object to which the keys of seq were assigned one
\* after the other, each with a number, a string or true: the array indices
\* in ascending order, then the other keys in the order of their first
\* assignment; an assignment to __proto__ creates no property
Dedup(seq) ==
    LET
        \* A key that is an array index: a canonical decimal number up to 2^32 - 2
        IsArrayIndex(key) ==
            /\ key # <<>>
            /\ IsDigits(key)
            /\ (Len(key) = 1 \/ key[1] # "0")
            /\ Len(key) <= 10
            /\ Len(key) = 10 =>
                   LET top == <<"4", "2", "9", "4", "9", "6", "7", "2", "9", "4">>
                   IN \/ key = top
                      \/ \E i \in 1..10 : /\ SubSeq(key, 1, i - 1) = SubSeq(top, 1, i - 1)
                                           /\ DigitOf(key[i]) < DigitOf(top[i])
        \* The order of two array indices
        IndexBefore(a, b) ==
            \/ Len(a) < Len(b)
            \/ /\ Len(a) = Len(b)
               /\ \E i \in 1..Len(a) : /\ SubSeq(a, 1, i - 1) = SubSeq(b, 1, i - 1)
                                        /\ DigitOf(a[i]) < DigitOf(b[i])
        first[i \in 0..Len(seq)] ==
            IF i = 0 THEN <<>>
            ELSE IF seq[i] = <<"_", "_", "p", "r", "o", "t", "o", "_", "_">>
                    \/ ArrayIncludes(first[i - 1], seq[i])
            THEN first[i - 1] ELSE Append(first[i - 1], seq[i])
        own == first[Len(seq)]
        indices == {own[i] : i \in {j \in 1..Len(own) : IsArrayIndex(own[j])}}
        NotIndex(key) == ~IsArrayIndex(key)
    IN [i \in 1..Cardinality(indices) |->
           CHOOSE k \in indices :
               Cardinality({j \in indices : IndexBefore(j, k)}) = i - 1]
       \o SelectSeq(own, NotIndex)

\* obj[x] after obj[k] = (obj[k] || 0) + 1 was done for each k of seq, obj
\* being a plain object that was empty: the number of times x occurs, unless
\* obj[x] was an inherited method at the first of them
Count(seq, x) ==
    LET hits == Cardinality({i \in 1..Len(seq) : seq[i] = x})
        counted[i \in 0..hits] ==
            IF i = 0 THEN Inherited(x)
            ELSE <<JsAdd(OrZero(counted[i - 1]), JsNumber(1))>>
    IN OrZero(counted[hits])

\* The result of the comparator (a, b) => b.frequency - a.frequency as the
\* sort takes it: NaN counts as 0
ByFrequency(a, b) ==
    LET x == ToNumber(a.frequency)
        y == ToNumber(b.frequency)
    IN IF x = <<>> \/ y = <<>> THEN 0 ELSE y[1] - x[1]

\* Where the binary insertion of the sort puts pivot among work[left..right-1]
RECURSIVE InsertionPoint(_, _, _, _)
InsertionPoint(work, pivot, left, right) ==
    IF left >= right THEN left
    ELSE LET mid == left + ((right - left) \div 2)
         IN IF ByFrequency(pivot, work[mid]) < 0
            THEN InsertionPoint(work, pivot, left, mid)
            ELSE InsertionPoint(work, pivot, mid + 1, right)


\* Array.prototype.sort((a, b) => b.frequency - a.frequency) on an array of
\* fewer than 64 entries: the initial run is made (a strictly descending one is
\* reversed), then each further entry is put in by binary insertion; with
\* numbers as frequencies this is a stable sort by descending frequency
SortByFrequency(seq) ==
    LET n == Len(seq)
        descending == ByFrequency(seq[2], seq[1]) < 0
        Continues(i) == IF descending THEN ByFrequency(seq[i], seq[i - 1]) < 0
                        ELSE ByFrequency(seq[i], seq[i - 1]) >= 0
        run == CHOOSE r \in 2..n :
                   /\ \A i \in 3..r : Continues(i)
                   /\ r < n => ~Continues(r + 1)
        made == IF descending
                THEN [i \in 1..n |-> IF i <= run THEN seq[run + 1 - i] ELSE seq[i]]
                ELSE seq
        work[start \in run..n] ==
            IF start = run THEN made
            ELSE LET before == work[start - 1]
                     pivot == before[start]
                     left == InsertionPoint(before, pivot, 1, start)
                 IN SubSeq(before, 1, left - 1) \o <<pivot>>
                        \o SubSeq(before, left, start - 1)
                        \o SubSeq(before, start + 1, n)
    IN IF n < 2 THEN seq ELSE work[n]

\* The keywords counted by the two nested forEach loops, in the order counted
RECURSIVE ThemeHits(_, _, _, _)
ThemeHits(tweets, keywords, t, j) ==
    IF t > Len(tweets) THEN <<>>
    ELSE IF j > Len(keywords) THEN ThemeHits(tweets, keywords, t + 1, 1)
    ELSE (IF Includes(ToLowerCase(TextOf(tweets[t])[1]), ToLowerCase(keywords[j]))
          THEN <<keywords[j]>> ELSE <<>>)
         \o ThemeHits(tweets, keywords, t, j + 1)

ExtractThemes(tweets, keywords) ==
    IF \E i \in 1..Len(tweets) : TextOf(tweets[i]) = <<>>
    THEN Throw(S_TypeError)
    ELSE LET hits == ThemeHits(tweets, keywords, 1, 1)
             keys == Dedup(hits)
         IN Return(SortByFrequency(
                [i \in 1..Len(keys) |->
                    [theme |-> keys[i], frequency |-> Count(hits, keys[i])]]))

\* Variant: the score is not capped
MinCap_None(x) == x

\* Math.min(100, x)
MinCap(x) == IF x < CollaborationCap THEN x ELSE CollaborationCap

(***************************************************************************)
(* The arithmetic of JavaScript numbers (IEEE 754 binary64) in the score:  *)
(* a natural number is a sequence of digits in base 2^15, lowest first; a  *)
(* double is the record [m, e] that stands for m * 2^e.                    *)
(***************************************************************************)
\* a * k + c for naturals a and c and 0 <= k <= 2^15
BigTimes(a, k, c) ==
    LET n == (IF Len(a) > Len(c) THEN Len(a) ELSE Len(c)) + 2
        At(x, i) == IF i <= Len(x) THEN x[i] ELSE 0
        carry[i \in 0..n] ==
            IF i = 0 THEN 0 ELSE (At(a, i) * k + At(c, i) + carry[i - 1]) \div 32768
        digit == [i \in 1..n |-> (At(a, i) * k + At(c, i) + carry[i - 1]) % 32768]
        used == {i \in 1..n : digit[i] # 0}
    IN SubSeq(digit, 1, IF used = {} THEN 0 ELSE CHOOSE i \in used : \A j \in used : j <= i)

\* The quotient and the remainder of the natural a by k, 1 <= k <= 2^15
BigOver(a, k) ==
    LET rest[i \in 1..(Len(a) + 1)] ==
            IF i = Len(a) + 1 THEN 0 ELSE (rest[i + 1] * 32768 + a[i]) % k
        digit == [i \in 1..Len(a) |-> (rest[i + 1] * 32768 + a[i]) \div k]
        used == {i \in 1..Len(a) : digit[i] # 0}
    IN [q |-> SubSeq(digit, 1, IF used = {} THEN 0
                               ELSE CHOOSE i \in used : \A j \in used : j <= i),
        r |-> rest[1]]

\* a * 2^bits
BigShift(a, bits) ==
    IF a = <<>> THEN <<>>
    ELSE [i \in 1..(bits \div 15) |-> 0] \o BigTimes(a, 2 ^ (bits % 15), <<>>)

\* The double nearest to n * 2^e, or to a value just above it when more is
\* set: n is cut to 53 bits, rounding to nearest, ties to even
RoundDouble(n, e, more) ==
    LET top == IF n = <<>> THEN 0 ELSE n[Len(n)]
        bits == IF n = <<>> THEN 0
                ELSE 15 * (Len(n) - 1) + Cardinality({b \in 0..14 : 2 ^ b <= top})
        cut == bits - 53
        low == SubSeq(n, 1, (cut - 1) \div 15)
        kept == BigOver(SubSeq(n, ((cut - 1) \div 15) + 1, Len(n)), 2 ^ ((cut - 1) % 15))
        half == kept.q[1] % 2 = 1
        below == more \/ kept.r # 0 \/ \E i \in 1..Len(low) : low[i] # 0
        down == BigOver(kept.q, 2).q
        odd == down[1] % 2 = 1
    IN IF cut <= 0 THEN [m |-> n, e |-> e]
       ELSE [m |-> IF half /\ (below \/ odd) THEN BigTimes(down, 1, <<1>>) ELSE down,
             e |-> e + cut]

\* k * x for a natural number k < 2^31 and a double x
DoubleTimes(k, x) ==
    LET high == BigTimes(x.m, k \div 1073741824, <<>>)
        mid == BigTimes(x.m, (k \div 32768) % 32768, <<0>> \o high)
    IN RoundDouble(BigTimes(x.m, k % 32768, <<0>> \o mid), x.e, FALSE)

\* x + y
DoublePlus(x, y) ==
    LET e == IF x.e < y.e THEN x.e ELSE y.e
    IN RoundDouble(BigTimes(BigShift(x.m, x.e - e), 1, BigShift(y.m, y.e - e)), e, FALSE)

\* x / k for 1 <= k <= 2^15
DoubleOver(x, k) ==
    LET d == BigOver(BigShift(x.m, 60), k)
    IN RoundDouble(d.q, x.e - 60, d.r # 0)

\* Math.round(x) for a double 0 <= x < 2^31: the floor of x + 0.5
MathRound(x) ==
    LET s == 0 - x.e
        whole == IF x.e >= 0 THEN BigShift(x.m, x.e)
                 ELSE LET sum == BigTimes(x.m, 1, BigShift(<<1>>, s - 1))
                      IN BigOver(SubSeq(sum, (s \div 15) + 1, Len(sum)), 2 ^ (s % 15)).q
        int[i \in 0..Len(whole)] ==
            IF i = 0 THEN 0 ELSE int[i - 1] + whole[i] * (32768 ^ (i - 1))
    IN int[Len(whole)]

\* Math.round((likes * 0.3 + retweets * 0.4 + replies * 0.3) / 10); 0.3 and 0.4
\* are the doubles 5404319552844595 * 2^-54 and 7205759403792794 * 2^-54
WeightedScore(avgEngagement) ==
    LET c3 == [m |-> <<13107, 26214, 19660, 153>>, e |-> -54]
        c4 == [m |-> <<6554, 13107, 26214, 204>>, e |-> -54]
    IN MathRound(DoubleOver(
           DoublePlus(DoublePlus(DoubleTimes(avgEngagement.likes, c3),
                                 DoubleTimes(avgEngagement.retweets, c4)),
                      DoubleTimes(avgEngagement.replies, c3)),
           10))

AssessCollaborationPotential(tweets) ==
    LET avgEngagement == CalculateAverageEngagement(tweets)
        score == MinCap(WeightedScore(avgEngagement))
    IN [score |-> score,
        level |-> IF score > HighCollaboration THEN "high"
                  ELSE IF score > MediumCollaboration THEN "medium" ELSE "low",
        reasoning |->
            IF score > HighCollaboration
            THEN "Strong engagement - excellent collaboration target"
            ELSE IF score > MediumCollaboration
            THEN "Moderate engagement - consider for partnerships"
            ELSE "Lower engagement - monitor before outreach"]

\* Variant: the bands include their lower limits (>= 100, >= 50)
CalculateTrendStrength_AtLeast(tweets) ==
    LET avgEngagement == CalculateAverageEngagement(tweets)
        twice == avgEngagement.likes + avgEngagement.retweets
    IN [score |-> RoundDiv(twice, 2),
        level |-> IF twice >= 2 * StrongTrend THEN "strong"
                  ELSE IF twice >= 2 * ModerateTrend THEN "moderate" ELSE "weak"]

\* strength = (likes + retweets) / 2 is compared unrounded: 2 * strength is used
CalculateTrendStrength(tweets) ==
    LET avgEngagement == CalculateAverageEngagement(tweets)
        twice == avgEngagement.likes + avgEngagement.retweets
    IN [score |-> RoundDiv(twice, 2),
        level |-> IF twice > 2 * StrongTrend THEN "strong"
                  ELSE IF twice > 2 * ModerateTrend THEN "moderate" ELSE "weak"]

Angles ==
    <<[keyword |-> <<"h", "o", "w", " ", "t", "o">>, weight |->
           <<"t", "a", "c", "t", "i", "c", "a", "l">>],
      [keyword |-> <<"w", "h", "y">>, weight |->
           <<"e", "d", "u", "c", "a", "t", "i", "o", "n", "a", "l">>],
      [keyword |-> <<"c", "a", "s", "e", " ", "s", "t", "u", "d", "y">>, weight |->
           <<"p", "r", "o", "o", "f">>],
      [keyword |-> <<"m", "i", "s", "t", "a", "k", "e">>, weight |->
           <<"c", "o", "n", "t", "r", "a", "r", "i", "a", "n">>],
      [keyword |-> <<"f", "r", "a", "m", "e", "w", "o", "r", "k">>, weight |->
           <<"s", "y", "s", "t", "e", "m", "a", "t", "i", "c">>]>>

RECURSIVE MissingAngles(_, _)
MissingAngles(text, i) ==
    IF i > Len(Angles) THEN <<>>
    ELSE (IF ~Includes(text, Angles[i].keyword) THEN <<Angles[i].weight>> ELSE <<>>)
         \o MissingAngles(text, i + 1)

IdentifyContentGaps(tweets) ==
    IF \E i \in 1..Len(tweets) : TextOf(tweets[i]) = <<>>
    THEN Throw(S_TypeError)
    ELSE LET text == Join([i \in 1..Len(tweets) |-> ToLowerCase(TextOf(tweets[i])[1])],
                          <<" ">>)
         IN Return(Dedup(MissingAngles(text, 1)))

(***************************************************************************)
(* CompetitiveIntelligence: the report entries                             *)
(***************************************************************************)
Engagement(t) ==
    [likes |-> Metric(t, "like_count"),
     retweets |-> Metric(t, "retweet_count"),
     replies |-> Metric(t, "reply_count")]

TopTweet(t) ==
    [text |-> TextOf(t), engagement |-> Engagement(t), createdAt |-> Get(t, "created_at")]

TrendTopTweet(t) ==
    [text |-> TextOf(t), author |-> AuthorOf(t), engagement |-> Engagement(t),
     createdAt |-> Get(t, "created_at")]

\* The object literal `analysis` of analyzeCompetitors; a TypeError thrown while
\* it is built leaves the try block
CompetitorAnalysis(competitor, tweets, keywords) ==
    LET themes == ExtractThemes(tweets, keywords)
    IN IF themes.thrown THEN themes
       ELSE Return([handle |-> competitor,
                    tweetsAnalyzed |-> Len(tweets),
                    topTweets |-> [i \in 1..Len(tweets) |-> TopTweet(tweets[i])],
                    averageEngagement |-> CalculateAverageEngagement(tweets),
                    contentThemes |-> themes.value])

InfluencerAnalysis(influencer, tweets, keywords) ==
    LET themes == ExtractThemes(tweets, keywords)
    IN IF themes.thrown THEN themes
       ELSE Return([handle |-> influencer,
                    tweetsAnalyzed |-> Len(tweets),
                    topTweets |-> [i \in 1..Len(tweets) |-> TopTweet(tweets[i])],
                    averageEngagement |-> CalculateAverageEngagement(tweets),
                    contentThemes |-> themes.value,
                    collaborationPotential |-> AssessCollaborationPotential(tweets)])

TrendAnalysis(keyword, tweets) ==
    LET gaps == IdentifyContentGaps(tweets)
    IN IF gaps.thrown THEN gaps
       ELSE Return([keyword |-> keyword,
                    tweetsFound |-> Len(tweets),
                    topTweets |-> [i \in 1..Len(tweets) |-> TrendTopTweet(tweets[i])],
                    trendStrength |-> CalculateTrendStrength(tweets),
                    contentGaps |-> gaps.value])

\* if (tweets.length > 0) { section.push(analysis) }, inside try/catch
\* Variant: the entry is put in front (unshift)
PushIfAny_Unshift(section, searched, analysis) ==
    IF ~searched.thrown /\ Len(searched.value.val) > 0 /\ ~analysis.thrown
    THEN <<analysis.value>> \o section
    ELSE section

\* searched is what the awaited search settled with
PushIfAny(section, searched, analysis) ==
    IF ~searched.thrown /\ Len(searched.value.val) > 0 /\ ~analysis.thrown
    THEN Append(section, analysis.value)
    ELSE section

\* Array.prototype.flatMap(e => e[field])
RECURSIVE FlatMap(_, _)
FlatMap(entries, field) ==
    IF entries = <<>> THEN <<>>
    ELSE Head(entries)[field] \o FlatMap(Tail(entries), field)


\* acc[k] after acc[t.theme] = (acc[t.theme] || 0) + t.frequency was done for
\* each t of themes, acc being a plain object that was empty
SumFrequency(themes, k) ==
    LET sum[i \in 0..Len(themes)] ==
            IF i = 0 THEN Inherited(k)
            ELSE IF themes[i].theme # k THEN sum[i - 1]
            ELSE <<JsAdd(OrZero(sum[i - 1]), themes[i].frequency)>>
    IN OrZero(sum[Len(themes)])

\* Variant: the medium band counts as well
HighPotential_Medium(i) == i.collaborationPotential.score > MediumCollaboration

\* i.collaborationPotential.score > 70
HighPotential(i) == i.collaborationPotential.score > HighCollaboration

\* The insights generateInsights pushes, in order
NewInsights(report) ==
    LET all == FlatMap(report.competitors, "contentThemes")
        keys == Dedup([i \in 1..Len(all) |-> all[i].theme])
        totals == SortByFrequency(
            [i \in 1..Len(keys) |->
                [theme |-> keys[i], frequency |-> SumFrequency(all, keys[i])]])
        topName == IF totals # <<>> /\ totals[1].theme # <<>>
                   THEN totals[1].theme ELSE <<"unknown">>
        topCount == IF totals # <<>> THEN OrZero(<<totals[1].frequency>>) ELSE JsNumber(0)
        highPotential == SelectSeq(report.influencers, HighPotential)
        IsStrong(t) == t.trendStrength.level = "strong"
        strongTrends == SelectSeq(report.trends, IsStrong)
    IN (IF Len(report.competitors) > 0
        THEN <<[type |-> "competitor-positioning",
                description |-> <<"Competitors heavily focus on \"">> \o topName
                    \o <<"\" (">> \o ToStr(topCount) \o <<" mentions)">>,
                actionable |-> "Consider differentiating with other angles like frameworks, case studies, or contrarian takes"]>>
        ELSE <<>>)
       \o
       (IF Len(report.influencers) > 0 /\ Len(highPotential) > 0
        THEN <<[type |-> "collaboration-opportunity",
                description |-> NumberToString(Len(highPotential))
                    \o <<" influencer(s) with high collaboration potential">>,
                targets |-> [i \in 1..Len(highPotential) |->
                                <<"@">> \o highPotential[i].handle],
                actionable |-> "Prioritize outreach to high-potential influencers"]>>
        ELSE <<>>)
       \o
       (IF Len(report.trends) > 0 /\ Len(strongTrends) > 0
        THEN <<[type |-> "trend-opportunity",
                description |-> NumberToString(Len(strongTrends))
                    \o <<" strong trend(s) in niche">>,
                trends |-> [i \in 1..Len(strongTrends) |->
                               <<"\"">> \o strongTrends[i].keyword \o <<"\" (strength: ">>
                               \o NumberToString(strongTrends[i].trendStrength.score)
                               \o <<")">>],
                actionable |-> "Create content around strong trends for higher engagement"]>>
        ELSE <<>>)

GenerateInsights(report) ==
    [report EXCEPT !.insights = @ \o NewInsights(report)]

\* Variant: a gap found once is already of high priority
GapPriority_Once(count) == IF Exceeds(count, 0) THEN "high" ELSE "medium"

\* count > 1 ? 'high' : 'medium'
GapPriority(count) == IF Exceeds(count, 1) THEN "high" ELSE "medium"

\* Variant: as many replies as likes is enough
EngagementStrategyDue_AtLeast(avgEngagement) ==
    avgEngagement.replies >= avgEngagement.likes

\* avgEngagement.replies > avgEngagement.likes
EngagementStrategyDue(avgEngagement) == avgEngagement.replies > avgEngagement.likes

\* The recommendations generateRecommendations pushes, in order; a gap is
\* recommended if (count > 0)
NewRecommendations(report) ==
    LET gaps == FlatMap(report.trends, "contentGaps")
        Positive(g) == Exceeds(Count(gaps, g), 0)
        keys == SelectSeq(Dedup(gaps), Positive)
        avgEngagement == CalculateAverageEngagement(FlatMap(report.competitors, "topTweets"))
    IN [i \in 1..Len(keys) |->
           [type |-> "content-opportunity",
            content |-> keys[i],
            priority |-> GapPriority(Count(gaps, keys[i])),
            reasoning |-> <<"Missing \"">> \o keys[i] \o <<"\" angle across ">>
                \o ToStr(Count(gaps, keys[i])) \o <<" trends">>]]
       \o
       (IF EngagementStrategyDue(avgEngagement)
        THEN <<[type |-> "engagement-strategy",
                strategy |-> "question-driven",
                priority |-> "high",
                reasoning |-> <<"High reply rate suggests question-based content works well">>]>>
        ELSE <<>>)
       \o
       <<[type |-> "posting-strategy",
          frequency |-> "daily",
          priority |-> "high",
          reasoning |-> <<"Competitors maintain daily posting for niche relevance">>]>>

GenerateRecommendations(report) ==
    [report EXCEPT !.recommendations = @ \o NewRecommendations(report)]

\* this.report.summary = {...}
Summarize(report) ==
    [report EXCEPT !.summary =
        <<[competitorsTracked |-> Len(report.competitors),
           influencersTracked |-> Len(report.influencers),
           trendsIdentified |-> Len(report.trends),
           insightsGenerated |-> Len(report.insights),
           recommendationsProvided |-> Len(report.recommendations)]>>]

(***************************************************************************)
(* JSON.stringify of the report: properties whose value is undefined are   *)
(* left out                                                                *)
(***************************************************************************)
OptionalFields == {"text", "author", "createdAt"}

StringifyTweet(t) ==
    [g \in {h \in DOMAIN t : h \in OptionalFields => t[h] # <<>>} |->
        IF g \in OptionalFields THEN t[g][1] ELSE t[g]]

StringifyEntries(entries) ==
    [i \in 1..Len(entries) |->
        [entries[i] EXCEPT !.topTweets = [j \in 1..Len(@) |-> StringifyTweet(@[j])]]]

Stringify(report) ==
    [report EXCEPT !.competitors = StringifyEntries(@),
                   !.influencers = StringifyEntries(@),
                   !.trends = StringifyEntries(@),
                   !.summary = @[1]]

(***************************************************************************)
(* Brand configurations (bird-config.json) and the instance                *)
(***************************************************************************)
K_x == <<"x">>
K_why == <<"w", "h", "y">>
K_z == <<"z">>
K_q == <<"q">>
H_a == <<"a">>
H_b == <<"b">>
H_c == <<"c">>

CfgHandles == [keywords |-> <<K_x>>,
               competitors |-> <<H_a, H_b>>,
               influencers |-> <<H_c>>]
CfgKeywords == [keywords |-> <<K_x, K_why, K_z, K_q>>, competitors |-> <<>>]
CfgSmall == [keywords |-> <<K_x>>, competitors |-> <<H_a>>, influencers |-> <<>>]
CfgBare == [influencers |-> <<H_c>>]


\* this.config.<list> || []
Competitors(config) == OrElse(config, "competitors", <<>>)
Influencers(config) == OrElse(config, "influencers", <<>>)
Keywords(config) == OrElse(config, "keywords", <<>>)
\* Variant: every keyword is searched
TrendKeywords_NoCap(config) == Keywords(config)

\* keywords.slice(0, 3)
TrendKeywords(config) ==
    SubSeq(Keywords(config), 1,
           IF Len(Keywords(config)) < TrendKeywordCap THEN Len(Keywords(config))
           ELSE TrendKeywordCap)

\* constructor(brand): the report starts empty
NewIntel(config) ==
    [config |-> config,
     report |-> [brand |-> <<"ai.withjai">>, timestamp |-> <<"2026-01-01T00:00:00.000Z">>,
                 competitors |-> <<>>, influencers |-> <<>>, trends |-> <<>>,
                 insights |-> <<>>, recommendations |-> <<>>, summary |-> <<>>],
     pc |-> "new",
     options |-> [competitorsOnly |-> FALSE, influencersOnly |-> FALSE],
     idx |-> 0,
     queries |-> <<>>,
     runs |-> 0,
     fetches |-> 0,
     writes |-> 0]

\* Variant: the two options are swapped
SkipInfluencers_Swapped(options) == options.influencersOnly

\* if (!influencersOnly) analyzeCompetitors(); if (!competitorsOnly) analyzeInfluencers()
SkipCompetitors(options) == options.influencersOnly
SkipInfluencers(options) == options.competitorsOnly




\* No method of the instance is called on its own
NoCall == [method |-> "", pc |-> "idle", tweets |-> <<>>, result |-> <<>>]

(***************************************************************************)
(* Initial states and actions                                              *)
(***************************************************************************)
Init ==
    /\ entry \in {"executeCommand", "fetch", "run"}
    /\ ex = ExIdle
    /\ w = WIdle
    /\ intel \in IF entry = "run" THEN {NewIntel(c) : c \in {CfgHandles, CfgKeywords, CfgSmall, CfgBare}}
                 ELSE {NewIntel(CfgSmall)}
    /\ disk = <<>>
    /\ call = NoCall

\* A caller invokes BirdUtils.executeCommand directly
CallExecuteCommand ==
    /\ entry = "executeCommand"
    /\ ex.pc = "idle"
    /\ \E args \in {<<>>, <<S_dashJson>>}, options \in {[format |-> S_json]}
                 \cup {[format |-> S_json, retries |-> n] : n \in 0..MaxRetries} :
           ex' = ExecuteCommand(S_search, args, options)
    /\ UNCHANGED <<call, entry, w, intel, disk>>

\* await execFileAsync(birdPath, finalArgs): the tool succeeds or fails; to a
\* wrapper called on its own it also gives an array that is not closed, one
\* with a trailing comma and two objects in a row
InvokeTool ==
    /\ ex.pc = "loop"
    /\ \E outcome \in ToolOutcomes
              \cup (IF entry = "fetch"
                    THEN [ok : {TRUE},
                          text : {<<"[", "p1">>, <<"[", "p1", ",", "]">>, <<"p1", "p1">>}]
                    ELSE {}) :
           ex' = AfterAttempt(ex, outcome)
    /\ UNCHANGED <<call, entry, w, intel, disk>>

\* await new Promise(resolve => setTimeout(resolve, delay))
Delay ==
    /\ ex.pc = "delay"
    /\ ex' = AfterDelay(ex)
    /\ UNCHANGED <<call, entry, w, intel, disk>>

\* A caller invokes one of the fetch wrappers directly
CallFetch ==
    /\ entry = "fetch"
    /\ w.pc = "idle"
    /\ \E op \in FetchOps :
           LET target == IF op = "search" THEN K_x ELSE <<"4", "2">> IN
           /\ w' = Awaiting(op, target)
           /\ ex' = ExecuteCommand(WrapperCommand(op),
                                   WrapperArgs(op, target, DefaultLimit),
                                   [format |-> S_json])
    /\ UNCHANGED <<call, entry, intel, disk>>

\* executeCommand has settled: the rest of the wrapper's try/catch
FetchReturn ==
    /\ w.pc = "awaiting"
    /\ ex.pc \in {"returned", "thrown"}
    /\ w' = Settled(w, ex.result[1])
    /\ ex' = ExIdle
    /\ UNCHANGED <<call, entry, intel, disk>>

\* BirdUtils.search(query, { limit: 5 }) called from the aggregator
IssueSearch(query) ==
    /\ intel.fetches < MaxFetches
    /\ w' = Awaiting("search", query)
    /\ ex' = ExecuteCommand(S_search, WrapperArgs("search", query, FetchLimit),
                            [format |-> S_json])
    /\ intel' = [intel EXCEPT !.queries = Append(@, query), !.fetches = @ + 1]

\* const tweets = await BirdUtils.search(..): the list, or the error search threw
Tweets == IF w.result[1].thrown THEN <<>> ELSE w.result[1].value.val

\* run(options) up to its first await
Run ==
    /\ entry = "run"
    /\ intel.pc \in {"new", "done"}
    /\ intel.runs < MaxRuns
    /\ \E options \in [competitorsOnly : BOOLEAN, influencersOnly : BOOLEAN] :
           intel' = [intel EXCEPT !.pc = "competitors", !.options = options,
                                  !.idx = 1, !.queries = <<>>, !.writes = 0,
                                  !.runs = @ + 1]
    /\ UNCHANGED <<call, entry, ex, w, disk>>

\* analyzeCompetitors: the head of the loop (skipped under influencersOnly)
AnalyzeCompetitors ==
    /\ intel.pc = "competitors"
    /\ w.pc = "idle"
    /\ IF ~SkipCompetitors(intel.options) /\ intel.idx <= Len(Competitors(intel.config))
       THEN IssueSearch(S_from \o Competitors(intel.config)[intel.idx])
       ELSE /\ intel' = [intel EXCEPT !.pc = "influencers", !.idx = 1]
            /\ UNCHANGED <<ex, w>>
    /\ UNCHANGED <<call, entry, disk>>

\* analyzeCompetitors: the loop body after the search has settled
AnalyzeCompetitorsResume ==
    /\ intel.pc = "competitors"
    /\ w.pc = "done"
    /\ intel' = [intel EXCEPT
           !.report.competitors =
               PushIfAny(@, w.result[1],
                         CompetitorAnalysis(Competitors(intel.config)[intel.idx],
                                            Tweets, Keywords(intel.config))),
           !.idx = @ + 1]
    /\ w' = WIdle
    /\ UNCHANGED <<call, entry, ex, disk>>

\* analyzeInfluencers: the head of the loop (skipped under competitorsOnly)
AnalyzeInfluencers ==
    /\ intel.pc = "influencers"
    /\ w.pc = "idle"
    /\ IF ~SkipInfluencers(intel.options) /\ intel.idx <= Len(Influencers(intel.config))
       THEN IssueSearch(S_from \o Influencers(intel.config)[intel.idx])
       ELSE /\ intel' = [intel EXCEPT !.pc = "trends", !.idx = 1]
            /\ UNCHANGED <<ex, w>>
    /\ UNCHANGED <<call, entry, disk>>

AnalyzeInfluencersResume ==
    /\ intel.pc = "influencers"
    /\ w.pc = "done"
    /\ intel' = [intel EXCEPT
           !.report.influencers =
               PushIfAny(@, w.result[1],
                         InfluencerAnalysis(Influencers(intel.config)[intel.idx],
                                            Tweets, Keywords(intel.config))),
           !.idx = @ + 1]
    /\ w' = WIdle
    /\ UNCHANGED <<call, entry, ex, disk>>

\* identifyTrends: the head of the loop over keywords.slice(0, 3)
IdentifyTrends ==
    /\ intel.pc = "trends"
    /\ w.pc = "idle"
    /\ IF intel.idx <= Len(TrendKeywords(intel.config))
       THEN IssueSearch(TrendKeywords(intel.config)[intel.idx])
       ELSE /\ intel' = [intel EXCEPT !.pc = "insights", !.idx = 0]
            /\ UNCHANGED <<ex, w>>
    /\ UNCHANGED <<call, entry, disk>>

IdentifyTrendsResume ==
    /\ intel.pc = "trends"
    /\ w.pc = "done"
    /\ intel' = [intel EXCEPT
           !.report.trends =
               PushIfAny(@, w.result[1],
                         TrendAnalysis(TrendKeywords(intel.config)[intel.idx], Tweets)),
           !.idx = @ + 1]
    /\ w' = WIdle
    /\ UNCHANGED <<call, entry, ex, disk>>

GenerateInsightsStep ==
    /\ intel.pc = "insights"
    /\ intel' = [intel EXCEPT !.report = GenerateInsights(@), !.pc = "recommendations"]
    /\ UNCHANGED <<call, entry, ex, w, disk>>

GenerateRecommendationsStep ==
    /\ intel.pc = "recommendations"
    /\ intel' = [intel EXCEPT !.report = GenerateRecommendations(@), !.pc = "save"]
    /\ UNCHANGED <<call, entry, ex, w, disk>>

\* saveReport up to its await: the summary is set and BirdUtils.saveResults
\* has written the file
SaveReport ==
    /\ intel.pc = "save"
    /\ intel' = [intel EXCEPT !.report = Summarize(@), !.writes = @ + 1,
                              !.pc = "awaitSaveResults"]
    /\ disk' = <<Stringify(Summarize(intel.report))>>
    /\ UNCHANGED <<call, entry, ex, w>>

\* saveReport after await BirdUtils.saveResults(..): it logs the summary and
\* returns, run() still being suspended
SaveReportResume ==
    /\ intel.pc = "awaitSaveResults"
    /\ intel' = [intel EXCEPT !.pc = "awaitSaveReport"]
    /\ UNCHANGED <<call, entry, ex, w, disk>>

\* run() after await this.saveReport(): return this.report
RunReturn ==
    /\ intel.pc = "awaitSaveReport"
    /\ intel' = [intel EXCEPT !.pc = "done"]
    /\ UNCHANGED <<call, entry, ex, w, disk>>

Next ==
    \/ CallExecuteCommand
    \/ InvokeTool
    \/ Delay
    \/ CallFetch
    \/ FetchReturn
    \/ Run
    \/ AnalyzeCompetitors
    \/ AnalyzeCompetitorsResume
    \/ AnalyzeInfluencers
    \/ AnalyzeInfluencersResume
    \/ IdentifyTrends
    \/ IdentifyTrendsResume
    \/ GenerateInsightsStep
    \/ GenerateRecommendationsStep
    \/ SaveReport
    \/ SaveReportResume
    \/ RunReturn

Spec == Init /\ [][Next]_vars

(***************************************************************************)
(* The methods of CompetitiveIntelligence called on their own: the posts,  *)
(* configurations and reports they are given, and one action per method    *)
(***************************************************************************)
MaxTweets == 2       \* longest list of posts given to a method
MaxEntries == 2      \* most entries in one section of a given report

K_constructor == <<"c", "o", "n", "s", "t", "r", "u", "c", "t", "o", "r">>

\* Further posts, beside the three of Objects
Samples ==
    [knowHow |->
         [text |-> <<"k", "n", "o", "w", " ", "h", "o", "w">>,
          public_metrics |-> [like_count |-> 82, retweet_count |-> 1]],
     toWin |->
         [text |-> <<"t", "o", " ", "w", "i", "n">>,
          public_metrics |->
              [like_count |-> 1000, retweet_count |-> 1025, reply_count |-> 0]],
     angles |->
         [text |-> <<"H", "o", "w", " ", "T", "o", " ", "W", "H", "Y", " ", "C", "a",
                     "s", "e", " ", "S", "t", "u", "d", "y", " ", "m", "i", "s", "t",
                     "a", "k", "e", " ", "f", "r", "a", "m", "e", "w", "o", "r", "k">>,
          public_metrics |->
              [like_count |-> 10000000, retweet_count |-> 10000000,
               reply_count |-> 10000000]],
     z |->
         [text |-> <<"z">>,
          public_metrics |->
              [like_count |-> 101, retweet_count |-> 100, reply_count |-> 102]],
     bare |-> [text |-> <<"y">>],
     inherited |->
         [text |-> <<"a", " ", "c", "o", "n", "s", "t", "r", "u", "c", "t", "o", "r">>,
          public_metrics |-> [like_count |-> 3]],
     why |->
         [text |-> <<"w", "h", "y">>,
          public_metrics |->
              [like_count |-> 100, retweet_count |-> 100, reply_count |-> 0]]]

Posts == {Objects[k] : k \in DOMAIN Objects} \cup {Samples[k] : k \in DOMAIN Samples}

SeqsUpTo(S, n) == UNION {[1..k -> S] : k \in 0..n}

TweetMethods ==
    {"calculateAverageEngagement", "extractThemes", "assessCollaborationPotential",
     "calculateTrendStrength", "identifyContentGaps"}

\* Configurations of the instance whose extractThemes is called
CfgThemes == [keywords |-> <<K_why, <<"X">>, K_q, K_constructor>>]

\* The reports given to generateInsights and generateRecommendations: each
\* section holds the entries the run builds from these lists of posts
Seeds ==
    [competitors |-> {<<Objects.p2>>, <<Samples.inherited, Samples.why>>,
                     <<Samples.bare>>},
     influencers |-> {<<Objects.p2>>, <<Objects.p1, Objects.p2>>},
     trends |-> {<<Samples.z>>, <<Objects.p1>>}]
SeedHandles == <<H_a, H_b, H_c>>
NameAt(names, i) == names[((i - 1) % Len(names)) + 1]

CompetitorEntries(seeds) ==
    [i \in 1..Len(seeds) |->
        CompetitorAnalysis(NameAt(SeedHandles, i), seeds[i], <<K_x, K_why, K_constructor>>).value]
InfluencerEntries(seeds) ==
    [i \in 1..Len(seeds) |->
        InfluencerAnalysis(NameAt(SeedHandles, i), seeds[i], <<K_x, K_why, K_constructor>>).value]
TrendEntries(seeds) ==
    [i \in 1..Len(seeds) |-> TrendAnalysis(NameAt(<<K_x, K_why, K_z>>, i), seeds[i]).value]

SeedReports ==
    {[NewIntel(CfgSmall).report EXCEPT !.competitors = cs,
                                       !.influencers = is,
                                       !.trends = ts] :
        cs \in {CompetitorEntries(seeds) : seeds \in SeqsUpTo(Seeds.competitors, MaxEntries)},
        is \in {InfluencerEntries(seeds) : seeds \in SeqsUpTo(Seeds.influencers, MaxEntries)},
        ts \in {TrendEntries(seeds) : seeds \in SeqsUpTo(Seeds.trends, MaxEntries)}}

\* An instance, and the method about to be called on it with its argument
MethodInit ==
    /\ entry = "method"
    /\ ex = ExIdle
    /\ w = WIdle
    /\ disk = <<>>
    /\ \E m \in TweetMethods \cup {"generateInsights", "generateRecommendations"} :
           /\ call \in {[method |-> m, pc |-> "ready", tweets |-> t, result |-> <<>>] :
                           t \in IF m \in TweetMethods THEN SeqsUpTo(Posts, MaxTweets) ELSE {<<>>}}
           /\ intel \in {[NewIntel(c) EXCEPT !.report = r] :
                            c \in IF m = "extractThemes" THEN {CfgKeywords, CfgThemes, CfgBare} ELSE {CfgSmall},
                            r \in IF m = "generateInsights" THEN SeedReports
                                  ELSE IF m = "generateRecommendations"
                                  THEN {x \in SeedReports : x.influencers = <<>>}
                                  ELSE {NewIntel(CfgSmall).report}}

\* The method m is called and returns (or throws) result
Returns(m, result) ==
    /\ entry = "method"
    /\ call.pc = "ready"
    /\ call.method = m
    /\ call' = [call EXCEPT !.pc = "done", !.result = <<result>>]

CallCalculateAverageEngagement ==
    /\ Returns("calculateAverageEngagement",
               Return(CalculateAverageEngagement(call.tweets)))
    /\ UNCHANGED <<entry, ex, w, intel, disk>>

CallExtractThemes ==
    /\ Returns("extractThemes", ExtractThemes(call.tweets, Keywords(intel.config)))
    /\ UNCHANGED <<entry, ex, w, intel, disk>>

CallAssessCollaborationPotential ==
    /\ Returns("assessCollaborationPotential",
               Return(AssessCollaborationPotential(call.tweets)))
    /\ UNCHANGED <<entry, ex, w, intel, disk>>

CallCalculateTrendStrength ==
    /\ Returns("calculateTrendStrength", Return(CalculateTrendStrength(call.tweets)))
    /\ UNCHANGED <<entry, ex, w, intel, disk>>

CallIdentifyContentGaps ==
    /\ Returns("identifyContentGaps", IdentifyContentGaps(call.tweets))
    /\ UNCHANGED <<entry, ex, w, intel, disk>>

CallGenerateInsights ==
    /\ Returns("generateInsights", Return(JsUndefined))
    /\ intel' = [intel EXCEPT !.report = GenerateInsights(@)]
    /\ UNCHANGED <<entry, ex, w, disk>>

CallGenerateRecommendations ==
    /\ Returns("generateRecommendations", Return(JsUndefined))
    /\ intel' = [intel EXCEPT !.report = GenerateRecommendations(@)]
    /\ UNCHANGED <<entry, ex, w, disk>>

MethodNext ==
    \/ CallCalculateAverageEngagement
    \/ CallExtractThemes
    \/ CallAssessCollaborationPotential
    \/ CallCalculateTrendStrength
    \/ CallIdentifyContentGaps
    \/ CallGenerateInsights
    \/ CallGenerateRecommendations

MethodSpec == MethodInit /\ [][MethodNext]_vars

(***************************************************************************)
(* Properties                                                              *)
(***************************************************************************)
IsPrefix(s, t) == Len(s) <= Len(t) /\ SubSeq(t, 1, Len(s)) = s
IsAttempt(e) == e.ev = "attempt"
\* The tool invocations of the current executeCommand call, in order
Attempts == SelectSeq(ex.trace, IsAttempt)
MentionsAuth(text) == Includes(text, S_auth) \/ Includes(text, S_cookie)
FetchPhases == {"competitors", "influencers", "trends"}
Sections == {"competitors", "influencers", "trends", "insights", "recommendations"}

\* C1: an attempt that fails with a message containing "auth" or "cookie" is
\* the last attempt of the call: the call has thrown, and what it threw is the
\* authentication error made from that message; when it is the first attempt,
\* the tool was invoked exactly once, whatever the retry count.
C1_AuthFailureStops ==
    \A i \in 1..Len(Attempts) :
        (~Attempts[i].ok /\ MentionsAuth(Attempts[i].text)) =>
            /\ i = Len(Attempts)
            /\ ex.pc = "thrown"
            /\ ex.result = <<Throw(S_AuthenticationError \o Attempts[i].text)>>
            /\ ex.trace[Len(ex.trace)].ev = "attempt"
            /\ (i = 1 => Len(Attempts) = 1)

\* A call with retry count 3 whose first attempt failed on cookies
C1_Witness ==
    /\ entry = "executeCommand"
    /\ ex.retries = 3
    /\ ex.pc = "thrown"
    /\ Len(ex.trace) = 1
    /\ ex.trace[1].text = MsgCookie

\* C2: a call with retry count N invokes the tool at most N times and never
\* after an attempt that succeeded; once N attempts have failed without an
\* authentication failure the call has thrown, after exactly N invocations,
\* what the N-th attempt failed with.
C2_BoundedAttempts ==
    LET n == Len(Attempts)
        allTransient == \A i \in 1..n : ~Attempts[i].ok /\ ~MentionsAuth(Attempts[i].text)
    IN /\ n <= ex.retries
       /\ \A i \in 1..n : Attempts[i].ok =>
              /\ i = n
              /\ ex.pc = "returned"
              /\ ex.result = <<Return(Attempts[i].text)>>
       /\ (ex.pc = "thrown" /\ allTransient) => n = ex.retries
       /\ (ex.pc # "idle" /\ allTransient /\ n = ex.retries) =>
              /\ ex.pc = "thrown"
              /\ n >= 1 => ex.result = <<Throw(Attempts[n].text)>>

\* Three attempts failed, the last one differently from the first two
C2_Witness ==
    /\ entry = "executeCommand"
    /\ ex.retries = 3
    /\ ex.pc = "thrown"
    /\ Len(Attempts) = 3
    /\ Attempts[1].text = MsgRate
    /\ Attempts[2].text = MsgRate
    /\ Attempts[3].text = MsgTimeout
    /\ ex.result = <<Throw(MsgTimeout)>>

\* C3: a fetch wrapper never throws; when executeCommand failed (retries
\* exhausted or authentication failure) or its output does not parse, a list
\* wrapper returns the empty list and readTweet returns null.
C3_WrappersSwallow ==
    w.pc = "done" =>
        LET a == w.awaited[1]
            r == w.result[1]
            failed == a.thrown \/ ParseJSON(a.value).thrown
        IN /\ ~r.thrown
           /\ failed => r.value = IF w.op = "readTweet" THEN JsNull ELSE Arr(<<>>)

\* search returned [] after executeCommand threw its authentication error
C3_Witness ==
    /\ entry = "fetch"
    /\ w.pc = "done"
    /\ w.op = "search"
    /\ w.awaited = <<Throw(S_AuthenticationError \o MsgAuth)>>
    /\ w.result = <<Return(Arr(<<>>))>>

\* The search the aggregator awaited has settled with the gateway's
\* authentication error / with a transient failure / with unparsable output
AuthFailureSeen ==
    /\ w.awaited[1].thrown
    /\ IsPrefix(S_AuthenticationError, w.awaited[1].value)
TransientFailureSeen ==
    /\ w.awaited[1].thrown
    /\ ~IsPrefix(S_AuthenticationError, w.awaited[1].value)
ParseFailureSeen ==
    /\ ~w.awaited[1].thrown
    /\ ParseJSON(w.awaited[1].value).thrown
\* The step of a loop body that follows the await of search
Resuming == entry = "run" /\ w.pc = "done" /\ intel.pc \in FetchPhases

\* The handle or keyword the current loop iteration is about
Current ==
    CASE intel.pc = "competitors" -> Competitors(intel.config)[intel.idx]
      [] intel.pc = "influencers" -> Influencers(intel.config)[intel.idx]
      [] intel.pc = "trends" -> TrendKeywords(intel.config)[intel.idx]
NameOf(e) == IF "handle" \in DOMAIN e THEN e.handle ELSE e.keyword

\* C4: an authentication failure of the gateway during a fetch of a run is
\* fatal to the run: the step after that fetch makes run() fail, so that no
\* further fetch is issued and no report is saved.
C4_AuthFailureIsFatal ==
    [][(Resuming /\ AuthFailureSeen) => intel'.pc = "failed"]_vars

\* C5: a run never fails on a fetch; after a transient or parse failure of a
\* fetch the run goes on with the next handle or keyword and has added no
\* entry, after a fetch that returned at least one post it has added exactly
\* one entry, for that handle or keyword, and a finished run has issued all
\* its searches and saved the report.
C5_BestEffort ==
    /\ [](intel.pc # "failed")
    /\ [](intel.pc = "done" => disk = <<Stringify(intel.report)>>)
    /\ [][Resuming =>
            LET section == intel.pc
                before == intel.report[section]
                after == intel'.report[section]
            IN /\ intel'.pc = intel.pc
               /\ intel'.idx = intel.idx + 1
               /\ (TransientFailureSeen \/ ParseFailureSeen) => after = before
               /\ (~w.awaited[1].thrown /\ ~ParseFailureSeen) =>
                      IF Len(w.result[1].value.val) >= 1
                      THEN /\ Len(after) = Len(before) + 1
                           /\ IsPrefix(before, after)
                           /\ NameOf(after[Len(after)]) = Current
                      ELSE after = before]_vars

\* The token of a standard output that is one JSON object
IsSingleObject(text) == Len(text) = 1 /\ text[1] \in DOMAIN Objects

\* C6 as stated: whenever the tool printed a single JSON object, the fetch
\* operation returns the one-element list holding that object.
C6_AlwaysOneElementList ==
    (w.pc = "done" /\ ~w.awaited[1].thrown /\ IsSingleObject(w.awaited[1].value)) =>
        w.result = <<Return(Arr(<<Objects[w.awaited[1].value[1]]>>))>>

\* C6, amended: search, getMentions, getBookmarks, getReplies and getThread
\* return the one-element list holding the object; readTweet returns the
\* object itself.
C6_ListWrappersNormalize ==
    (w.pc = "done" /\ ~w.awaited[1].thrown /\ IsSingleObject(w.awaited[1].value)) =>
        w.result = <<Return(IF w.op = "readTweet"
                            THEN Obj(Objects[w.awaited[1].value[1]])
                            ELSE Arr(<<Objects[w.awaited[1].value[1]]>>))>>

\* getThread got a single object from the tool and returned a list of one
C6_Witness ==
    /\ entry = "fetch"
    /\ w.pc = "done"
    /\ w.op = "getThread"
    /\ w.awaited = <<Return(OutObject)>>
    /\ w.result[1].value.kind = "array"
    /\ Len(w.result[1].value.val) = 1

DefaultOptions == [competitorsOnly |-> FALSE, influencersOnly |-> FALSE]
AfterFetches ==
    {"insights", "recommendations", "save", "awaitSaveResults", "awaitSaveReport", "done"}
FromQueries(handles) == [i \in 1..Len(handles) |-> S_from \o handles[i]]
FirstThree(keywords) ==
    SubSeq(keywords, 1, IF Len(keywords) < 3 THEN Len(keywords) ELSE 3)
ExpectedQueries(config) ==
    FromQueries(OrElse(config, "competitors", <<>>))
        \o FromQueries(OrElse(config, "influencers", <<>>))
        \o FirstThree(OrElse(config, "keywords", <<>>))

\* C7: in a run with default options the searches issued so far are a prefix
\* of: from:<competitor> for each competitor, from:<influencer> for each
\* influencer, then the first min(3, n) keywords, and all of them have been
\* issued once the fetches are over, whatever the searches returned; the only
\* search in flight is the last one issued, and the gateway runs only for it.
C7_QueryOrder ==
    (entry = "run" /\ intel.options = DefaultOptions) =>
        /\ IsPrefix(intel.queries, ExpectedQueries(intel.config))
        /\ intel.pc \in AfterFetches => intel.queries = ExpectedQueries(intel.config)
        /\ w.pc # "idle" =>
               /\ w.op = "search"
               /\ intel.queries # <<>>
               /\ w.target = intel.queries[Len(intel.queries)]
        /\ ex.pc # "idle" => w.pc = "awaiting"

\* Four keywords configured: three were searched, in order, and two of the
\* searches gave no trend entry
C7_Witness ==
    /\ intel.config = CfgKeywords
    /\ intel.options = DefaultOptions
    /\ intel.pc = "done"
    /\ intel.queries = <<K_x, K_why, K_z>>
    /\ Len(intel.report.trends) = 1

InfluencerQueries == {S_from \o h : h \in {Influencers(intel.config)[i] :
                                              i \in 1..Len(Influencers(intel.config))}}
CompetitorQueries == {S_from \o h : h \in {Competitors(intel.config)[i] :
                                              i \in 1..Len(Competitors(intel.config))}}
Suffix(seq, n) == SubSeq(seq, Len(seq) - n + 1, Len(seq))

\* What C8 says of every state of a run
C8_State ==
    (entry = "run" /\ intel.pc # "new") =>
        /\ intel.options.competitorsOnly =>
               /\ \A i \in 1..Len(intel.queries) : intel.queries[i] \notin InfluencerQueries
               /\ intel.runs = 1 => intel.report.influencers = <<>>
        /\ intel.options.influencersOnly =>
               /\ \A i \in 1..Len(intel.queries) : intel.queries[i] \notin CompetitorQueries
               /\ intel.runs = 1 => intel.report.competitors = <<>>
        /\ intel.pc \in AfterFetches =>
               LET keywords == FirstThree(OrElse(intel.config, "keywords", <<>>))
               IN /\ Len(intel.queries) >= Len(keywords)
                  /\ Suffix(intel.queries, Len(keywords)) = keywords

\* C8: whatever the two options are, a run searches its trend keywords (they
\* are the last searches it issued when its fetches are over); a run with
\* competitorsOnly issues no influencer search and no step of it changes the
\* influencers section, which is therefore empty in the first run of an
\* instance; a run with influencersOnly likewise for the competitors.
C8_OptionsSelect ==
    /\ []C8_State
    /\ [][/\ intel'.options.competitorsOnly =>
               intel'.report.influencers = intel.report.influencers
          /\ intel'.options.influencersOnly =>
               intel'.report.competitors = intel.report.competitors]_vars

\* A finished competitorsOnly run: both competitors and the trend analysed,
\* the influencer neither searched nor entered
C8_Witness ==
    /\ intel.config = CfgHandles
    /\ intel.options = [competitorsOnly |-> TRUE, influencersOnly |-> FALSE]
    /\ intel.pc = "done"
    /\ intel.queries = <<S_from \o H_a, S_from \o H_b, K_x>>
    /\ Len(intel.report.competitors) = 2
    /\ Len(intel.report.trends) = 1
    /\ intel.report.influencers = <<>>

\* C9: every step leaves each report section a prefix of what it becomes:
\* entries are only appended, none is removed, moved or changed.
C9_AppendOnly ==
    [][\A section \in Sections :
          IsPrefix(intel.report[section], intel'.report[section])]_vars

\* A report whose sections grew entry after entry, up to the recommendations
C9_Witness ==
    /\ Len(intel.report.competitors) = 2
    /\ Len(intel.report.influencers) = 1
    /\ Len(intel.report.trends) = 1
    /\ Len(intel.report.insights) >= 2
    /\ Len(intel.report.recommendations) >= 2

\* The positions of a run at which saveReport has written the file
Written == {"awaitSaveResults", "awaitSaveReport", "done"}

\* C10: the report is written exactly once per run, after the fetches, the
\* insights and the recommendations (never before saveReport, once from the
\* write on, until the run is done), and once a report has been written no
\* step modifies it, also not a step of a later run on the same instance.
C10_WrittenOnceThenImmutable ==
    /\ [](intel.pc \in Written => intel.writes = 1)
    /\ [](intel.pc \notin Written \cup {"new"} => intel.writes = 0)
    /\ [][disk # <<>> => intel'.report = intel.report]_vars

\* The call of the method m on its own has ended
Done(m) == entry = "method" /\ call.pc = "done" /\ call.method = m
Outcome == call.result[1]

\* C11: for every list of posts, however large their engagement counts, the
\* score assessCollaborationPotential returns is an integer from 0 to 100.
C11_ScoreClamped ==
    Done("assessCollaborationPotential") =>
        /\ Outcome.value.score \in Int
        /\ Outcome.value.score >= 0
        /\ Outcome.value.score <= 100

\* Ten million likes, retweets and replies: the score is the cap itself
C11_Witness ==
    /\ Done("assessCollaborationPotential")
    /\ call.tweets = <<Samples.angles>>
    /\ Outcome.value.score = 100

\* t.public_metrics?.<f> || 0, read off the post
Counted(t, f) ==
    IF "public_metrics" \in DOMAIN t
    THEN (IF f \in DOMAIN t.public_metrics THEN t.public_metrics[f] ELSE 0)
    ELSE 0
\* The sum of a count over the posts
Total(tweets, f) ==
    LET tot[i \in 0..Len(tweets)] ==
            IF i = 0 THEN 0 ELSE tot[i - 1] + Counted(tweets[i], f)
    IN tot[Len(tweets)]
\* r is the quotient total / n rounded to the nearest integer, a half upwards
IsRoundedMean(r, total, n) ==
    /\ 2 * n * r <= 2 * total + n
    /\ 2 * total + n < 2 * n * r + 2 * n

\* C12: calculateAverageEngagement returns {likes: 0, retweets: 0, replies: 0}
\* for the empty list and otherwise, for likes, retweets and replies, the
\* mean of the count over the posts rounded to the nearest integer, a post
\* without the count (or without public_metrics) counting as 0.
C12_RoundedMeans ==
    Done("calculateAverageEngagement") =>
        LET n == Len(call.tweets)
            r == Outcome.value
        IN /\ ~Outcome.thrown
           /\ DOMAIN r = {"likes", "retweets", "replies"}
           /\ n = 0 => r = [likes |-> 0, retweets |-> 0, replies |-> 0]
           /\ n > 0 =>
                  /\ IsRoundedMean(r.likes, Total(call.tweets, "like_count"), n)
                  /\ IsRoundedMean(r.retweets, Total(call.tweets, "retweet_count"), n)
                  /\ IsRoundedMean(r.replies, Total(call.tweets, "reply_count"), n)

\* 7 and 100 likes average 53.5, reported as 54; the first post has no
\* retweet or reply count
C12_Witness ==
    /\ Done("calculateAverageEngagement")
    /\ call.tweets = <<Objects.p3, Objects.p1>>
    /\ Outcome.value = [likes |-> 54, retweets |-> 25, replies |-> 5]

\* C13: calculateTrendStrength returns score = round((avgLikes + avgRetweets) / 2),
\* a half rounded upwards, and the level is the band of that score: "strong"
\* exactly when score > 100, "moderate" exactly when 50 < score <= 100 and
\* "weak" otherwise.
C13_LevelBandsScore ==
    Done("calculateTrendStrength") =>
        LET avg == CalculateAverageEngagement(call.tweets)
            score == Outcome.value.score
            level == Outcome.value.level
        IN /\ IsRoundedMean(score, avg.likes + avg.retweets, 2)
           /\ level \in {"strong", "moderate", "weak"}
           /\ level = "strong" <=> score > 100
           /\ level = "moderate" <=> (50 < score /\ score <= 100)
           /\ level = "weak" <=> score <= 50

\* 101 likes and 100 retweets: the strength 100.5 is reported as 101, strong
C13_Witness ==
    /\ Done("calculateTrendStrength")
    /\ call.tweets = <<Samples.z>>
    /\ Outcome.value = [score |-> 101, level |-> "strong"]

\* The canonical angles and their weight tags
G_tactical == <<"t", "a", "c", "t", "i", "c", "a", "l">>
G_educational == <<"e", "d", "u", "c", "a", "t", "i", "o", "n", "a", "l">>
G_proof == <<"p", "r", "o", "o", "f">>
G_contrarian == <<"c", "o", "n", "t", "r", "a", "r", "i", "a", "n">>
G_systematic == <<"s", "y", "s", "t", "e", "m", "a", "t", "i", "c">>
CanonicalAngles ==
    {<<<<"h", "o", "w", " ", "t", "o">>, G_tactical>>,
     <<<<"w", "h", "y">>, G_educational>>,
     <<<<"c", "a", "s", "e", " ", "s", "t", "u", "d", "y">>, G_proof>>,
     <<<<"m", "i", "s", "t", "a", "k", "e">>, G_contrarian>>,
     <<<<"f", "r", "a", "m", "e", "w", "o", "r", "k">>, G_systematic>>}
HasText(t) == "text" \in DOMAIN t \/ "full_text" \in DOMAIN t
TextIn(t) == IF "text" \in DOMAIN t THEN t.text ELSE t.full_text
Range(seq) == {seq[i] : i \in 1..Len(seq)}

\* C14: identifyContentGaps reports the weight tag of a canonical angle
\* exactly when the angle's keyword occurs in the text of none of the posts
\* (whatever the case of the text): every tag for posts containing no angle,
\* no tag for posts containing the five of them.
C14_GapIffAbsentFromEveryPost ==
    (Done("identifyContentGaps") /\ \A i \in 1..Len(call.tweets) : HasText(call.tweets[i])) =>
        /\ ~Outcome.thrown
        /\ \A a \in CanonicalAngles :
               a[2] \in Range(Outcome.value) <=>
                   \A i \in 1..Len(call.tweets) :
                       ~Includes(ToLowerCase(TextIn(call.tweets[i])), a[1])
        /\ Range(Outcome.value) \subseteq {a[2] : a \in CanonicalAngles}

\* Keywords that occur in a text, whatever the case of either
Occurs(keyword, t) == Includes(ToLowerCase(TextIn(t)), ToLowerCase(keyword))
PostsWith(keyword, tweets) == {i \in 1..Len(tweets) : Occurs(keyword, tweets[i])}

\* C15: extractThemes (on posts that have a text) returns one entry for each
\* configured keyword that occurs, case-insensitively, in the text of at
\* least one post and none for any other keyword; the frequency of an entry
\* is the number of posts whose text contains the keyword, and the entries
\* are in descending order of frequency.  On a post without text it throws.
C15_ThemesCounted ==
    Done("extractThemes") =>
        LET tweets == call.tweets
            keywords == Range(OrElse(intel.config, "keywords", <<>>))
            themes == Outcome.value
        IN IF \E i \in 1..Len(tweets) : ~HasText(tweets[i])
           THEN Outcome.thrown
           ELSE /\ ~Outcome.thrown
                /\ \A k \in keywords :
                       Cardinality({j \in 1..Len(themes) : themes[j].theme = k})
                           = IF PostsWith(k, tweets) # {} THEN 1 ELSE 0
                /\ \A j \in 1..Len(themes) :
                       /\ themes[j].theme \in keywords
                       /\ themes[j].frequency.kind = "number"
                       /\ themes[j].frequency.val =
                              Cardinality(PostsWith(themes[j].theme, tweets))
                /\ \A j \in 1..Len(themes) : \A k \in j..Len(themes) :
                       themes[j].frequency.val >= themes[k].frequency.val

Insights == intel.report.insights
InsightsOfType(t) == {k \in 1..Len(Insights) : Insights[k].type = t}
\* The influencer entries of the report that scored above 70
HighScorers ==
    {i \in 1..Len(intel.report.influencers) :
        intel.report.influencers[i].collaborationPotential.score > 70}

\* C16: after generateInsights (on the report of one run) there is a
\* collaboration-opportunity insight exactly when some influencer entry
\* scored above 70, which is the level "high"; there is at most one, and its
\* targets are the handles (written @handle) of exactly those entries.
C16_CollaborationInsight ==
    Done("generateInsights") =>
        LET inf == intel.report.influencers
            collab == InsightsOfType("collaboration-opportunity")
        IN /\ collab # {} <=> HighScorers # {}
           /\ Cardinality(collab) <= 1
           /\ \A i \in 1..Len(inf) :
                  (i \in HighScorers) <=> inf[i].collaborationPotential.level = "high"
           /\ \A k \in collab :
                  /\ Len(Insights[k].targets) = Cardinality(HighScorers)
                  /\ Range(Insights[k].targets)
                         = {<<"@">> \o inf[i].handle : i \in HighScorers}

\* Two influencers, one scoring 95 and one 50: the insight targets the first
C16_Witness ==
    /\ Done("generateInsights")
    /\ Len(intel.report.influencers) = 2
    /\ intel.report.influencers[1].collaborationPotential.score = 95
    /\ intel.report.influencers[2].collaborationPotential.score = 50
    /\ \E k \in InsightsOfType("collaboration-opportunity") :
           Insights[k].targets = <<<<"@">> \o H_a>>

\* The themes of the competitor entries and their frequencies summed over them
CompetitorThemes ==
    UNION {{e.contentThemes[j].theme : j \in 1..Len(e.contentThemes)} :
              e \in Range(intel.report.competitors)}
\* A theme all of whose recorded frequencies are numbers
Numeric(t) ==
    \A e \in Range(intel.report.competitors) : \A j \in 1..Len(e.contentThemes) :
        e.contentThemes[j].theme = t => e.contentThemes[j].frequency.kind = "number"
FrequencyIn(e, t) ==
    LET at == {j \in 1..Len(e.contentThemes) :
                  /\ e.contentThemes[j].theme = t
                  /\ e.contentThemes[j].frequency.kind = "number"}
    IN IF at # {} THEN e.contentThemes[CHOOSE j \in at : TRUE].frequency.val ELSE 0
Summed(t) ==
    LET comps == intel.report.competitors
        tot[i \in 0..Len(comps)] ==
            IF i = 0 THEN 0 ELSE tot[i - 1] + FrequencyIn(comps[i], t)
    IN tot[Len(comps)]
Maximal(t) ==
    /\ t \in CompetitorThemes
    /\ \A o \in CompetitorThemes : Numeric(o) /\ Summed(t) >= Summed(o)
\* `Competitors heavily focus on "${theme}" (${n} mentions)`
HeavilyFocusOn(theme, n) ==
    <<"Competitors heavily focus on \"">> \o theme \o <<"\" (">>
        \o NumberToString(n) \o <<" mentions)">>
Positioning == Insights[CHOOSE k \in InsightsOfType("competitor-positioning") : TRUE]

\* C17: with at least one competitor entry there is exactly one
\* competitor-positioning insight, and it names a theme of the entries whose
\* summed frequency is maximal, with that sum.
C17_NamesMaximalTheme ==
    (Done("generateInsights") /\ intel.report.competitors # <<>>) =>
        /\ Cardinality(InsightsOfType("competitor-positioning")) = 1
        /\ \E t \in CompetitorThemes :
               Maximal(t) /\ Positioning.description = HeavilyFocusOn(t, Summed(t))

Recommendations == intel.report.recommendations
RecommendationsOfType(t) ==
    {k \in 1..Len(Recommendations) : Recommendations[k].type = t}
\* The content gaps of the trend entries and the entries each occurs in
TrendGaps ==
    UNION {Range(intel.report.trends[i].contentGaps) :
              i \in 1..Len(intel.report.trends)}
TrendsWith(g) ==
    {i \in 1..Len(intel.report.trends) : g \in Range(intel.report.trends[i].contentGaps)}

\* C18: generateRecommendations emits exactly one content-opportunity
\* recommendation for each distinct gap of the trend entries and none for
\* anything else, of priority "high" when the gap is in more than one trend
\* entry and "medium" otherwise; the daily posting-strategy recommendation
\* is emitted once and is the last element of the list, also for a report
\* without trends and competitors.
C18_GapRecommendations ==
    Done("generateRecommendations") =>
        LET content == RecommendationsOfType("content-opportunity")
            last == Recommendations[Len(Recommendations)]
        IN /\ \A g \in TrendGaps :
                  Cardinality({k \in content : Recommendations[k].content = g}) = 1
           /\ \A k \in content :
                  /\ Recommendations[k].content \in TrendGaps
                  /\ Recommendations[k].priority =
                         IF Cardinality(TrendsWith(Recommendations[k].content)) > 1
                         THEN "high" ELSE "medium"
           /\ Len(Recommendations) >= 1
           /\ last.type = "posting-strategy"
           /\ last.frequency = "daily"
           /\ Cardinality(RecommendationsOfType("posting-strategy")) = 1

\* Two trends, the first with all five gaps and the second with four: the
\* tactical gap is of medium priority, the others of high, posting comes last
C18_Witness ==
    /\ Done("generateRecommendations")
    /\ Len(intel.report.trends) = 2
    /\ Cardinality(TrendsWith(G_tactical)) = 1
    /\ Cardinality(TrendsWith(G_proof)) = 2
    /\ Len(Recommendations) = 6
    /\ \E k \in 1..5 : /\ Recommendations[k].content = G_tactical
                       /\ Recommendations[k].priority = "medium"
    /\ \E k \in 1..5 : /\ Recommendations[k].content = G_proof
                       /\ Recommendations[k].priority = "high"
    /\ Recommendations[6].type = "posting-strategy"

\* The sum of a count over the top posts of all competitor entries
TopPosts ==
    LET comps == intel.report.competitors
        all[i \in 0..Len(comps)] == IF i = 0 THEN <<>> ELSE all[i - 1] \o comps[i].topTweets
    IN all[Len(comps)]
TopTotal(f) ==
    LET tot[i \in 0..Len(TopPosts)] ==
            IF i = 0 THEN 0 ELSE tot[i - 1] + TopPosts[i].engagement[f]
    IN tot[Len(TopPosts)]

\* C19: generateRecommendations emits an engagement-strategy recommendation
\* only if the mean reply count of the competitors' top posts in the report
\* exceeds their mean like count.
C19_EngagementStrategyOnlyIf ==
    Done("generateRecommendations") =>
        (RecommendationsOfType("engagement-strategy") # {} =>
            /\ TopPosts # <<>>
            /\ TopTotal("replies") > TopTotal("likes"))

\* Recommendations generated for a competitor whose top post has 1000 replies
\* and 900 likes, and for one whose top posts have no reply and 3 and 100 likes
C19_Witness ==
    /\ Done("generateRecommendations")
    /\ Len(intel.report.competitors) = 2
    /\ intel.report.competitors[1].topTweets[1].engagement.replies = 1000
    /\ intel.report.competitors[1].topTweets[1].engagement.likes = 900
    /\ Len(intel.report.competitors[2].topTweets) = 2
    /\ intel.report.competitors[2].topTweets[2].engagement.replies = 0
    /\ intel.report.competitors[2].topTweets[2].engagement.likes = 100
    /\ Recommendations # <<>>

\* The post with 100 likes, 50 retweets and 10 replies, as a report shows it
TheText == <<"h", "o", "w", " ", "t", "o", " ", "x">>
\* The saved report of a first run whose searches each gave that single post
SinglePostSaved ==
    /\ entry = "run"
    /\ intel.config = [keywords |-> <<K_x>>, competitors |-> <<H_a>>, influencers |-> <<>>]
    /\ intel.runs = 1
    /\ intel.queries = <<S_from \o H_a, K_x>>
    /\ disk # <<>>
    /\ Len(disk[1].competitors) = 1
    /\ disk[1].competitors[1].tweetsAnalyzed = 1
    /\ disk[1].competitors[1].topTweets[1].text = TheText
    /\ Len(disk[1].trends) = 1
    /\ disk[1].trends[1].tweetsFound = 1
    /\ disk[1].trends[1].topTweets[1].text = TheText

\* C20: configuration keywords [x], competitors [a], influencers []; the tool
\* returns the single post with 100 likes, 50 retweets and 10 replies for
\* from:a and for x.  The saved report has one competitor entry, for a, with
\* average engagement {likes: 100, retweets: 50, replies: 10}, no influencer
\* entry, one trend entry, for x, with strength 75 and level "moderate", and
\* no trend-opportunity insight.
C20_EndToEnd ==
    SinglePostSaved =>
        /\ disk[1].competitors =
               <<[handle |-> H_a,
                  tweetsAnalyzed |-> 1,
                  topTweets |-> <<[text |-> TheText,
                                   engagement |-> [likes |-> 100, retweets |-> 50,
                                                   replies |-> 10],
                                   createdAt |-> <<"d", "1">>]>>,
                  averageEngagement |-> [likes |-> 100, retweets |-> 50, replies |-> 10],
                  contentThemes |-> <<[theme |-> K_x, frequency |-> JsNumber(1)]>>]>>
        /\ disk[1].influencers = <<>>
        /\ disk[1].trends =
               <<[keyword |-> K_x,
                  tweetsFound |-> 1,
                  topTweets |-> <<[text |-> TheText,
                                   author |-> H_a,
                                   engagement |-> [likes |-> 100, retweets |-> 50,
                                                   replies |-> 10],
                                   createdAt |-> <<"d", "1">>]>>,
                  trendStrength |-> [score |-> 75, level |-> "moderate"],
                  contentGaps |-> <<G_educational, G_proof, G_contrarian, G_systematic>>]>>
        /\ \A k \in 1..Len(disk[1].insights) :
               disk[1].insights[k].type # "trend-opportunity"
        /\ Len(disk[1].insights) = 1
        /\ disk[1].insights[1].type = "competitor-positioning"
        /\ disk[1].summary =
               [competitorsTracked |-> 1, influencersTracked |-> 0,
                trendsIdentified |-> 1, insightsGenerated |-> 1,
                recommendationsProvided |-> 5]

\* The run is over and the report with the two entries is on disk
C20_Witness ==
    /\ SinglePostSaved
    /\ intel.pc = "done"
    /\ disk[1].trends[1].trendStrength.score = 75
    /\ disk[1].competitors[1].averageEngagement.likes = 100

\* The rounded mean of a count recorded in the competitors' top posts
TopMean(f) == RoundDiv(TopTotal(f), Len(TopPosts))

\* C21: whenever the top posts stored in the report's competitor entries have
\* a mean recorded reply count strictly greater than their mean recorded like
\* count, generateRecommendations adds an engagement-strategy
\* (question-driven) recommendation to the report.
C21_EngagementStrategyWhenRepliesLead ==
    Done("generateRecommendations") =>
        (TopPosts # <<>> /\ TopMean("replies") > TopMean("likes") =>
            \E r \in RecommendationsOfType("engagement-strategy") :
                r.strategy = "question-driven")

\* The k-th event of the call is an attempt that failed without an
\* authentication failure and was not the last attempt the retry count allows
Retryable(k) ==
    /\ ex.trace[k].ev = "attempt"
    /\ ~ex.trace[k].ok
    /\ ~MentionsAuth(ex.trace[k].text)
    /\ (k + 1) \div 2 < ex.retries

\* C22: in executeCommand the fixed delay is waited after a failed attempt
\* exactly when another attempt follows: attempts and pauses alternate,
\* starting with an attempt; every pause lasts the delay of the call, comes
\* right after a failed attempt that is neither an authentication failure nor
\* the last attempt allowed, and is followed by an attempt; a settled call has
\* paused after each such attempt and after no other (not after a success, a
\* final failure or an authentication failure); with retry count 0 the tool is
\* never invoked and the call has failed.
C22_PauseExactlyBetweenAttempts ==
    LET t == ex.trace
        n == Len(t)
        settled == ex.pc \in {"returned", "thrown"}
    IN /\ \A k \in 1..n : t[k].ev = (IF k % 2 = 1 THEN "attempt" ELSE "pause")
       /\ \A k \in 1..n : t[k].ev = "pause" =>
              /\ t[k].ms = ex.delay
              /\ Retryable(k - 1)
              /\ k = n => ex.pc = "loop"
       /\ \A k \in 1..n : (t[k].ev = "attempt" /\ (k < n \/ settled)) =>
              (Retryable(k) <=> k < n)
       /\ ex.pc = "delay" => (n >= 1 /\ Retryable(n))
       /\ settled => (n = 0 \/ t[n].ev = "attempt")
       /\ (ex.pc # "idle" /\ ex.retries = 0) =>
              /\ t = <<>>
              /\ ex.pc = "thrown"
              /\ ex.result = <<Throw(CommandFailedMessage(ex))>>

\* A call with retry count 3 whose three attempts failed on a rate limit, a
\* rate limit and a timeout: two pauses of 1000 ms, none after the third
C22_Witness ==
    /\ entry = "executeCommand"
    /\ ex.retries = 3
    /\ ex.pc = "thrown"
    /\ Len(ex.trace) = 5
    /\ ex.trace[1].text = MsgRate
    /\ ex.trace[2] = PauseEvent(DefaultDelay)
    /\ ex.trace[3].text = MsgRate
    /\ ex.trace[4] = PauseEvent(DefaultDelay)
    /\ ex.trace[5].ev = "attempt"
    /\ ex.trace[5].text = MsgTimeout

====
